---- MODULE Spec2Model ----
(***************************************************************************)
(* Triage pipeline of src/wa3.py (IntegratedDecryptionAndForensicsLogger): *)
(* mount, discovery of application databases, sandbox copy, SQLite         *)
(* introspection, content classification, relevance scoring, cleanup.      *)
(*                                                                         *)
(* Text is modelled as a sequence of chunks.  The chunks of every string   *)
(* used here are cut at every place where another string of the same name  *)
(* space begins or ends inside it, so that "p in s" of Python (substring   *)
(* on characters) is exactly "p is a contiguous subsequence of s" on       *)
(* chunks: "com.google.android.gm" is inside "com.google.android.gms"      *)
(* because the latter is cut as ..., "gm", "s".                            *)
(***************************************************************************)
EXTENDS Integers, Sequences, FiniteSets, TLC

\* ---------------------------------------------------------------- bounds
\* number of databases handed to the scorer in the scorer specification
MaxDbs == 2

\* ------------------------------------------------------- program constants
\* analyze_sqlite_db(..., row_limit=10)
row_limit == 10
\* minimum aggregate row count of a priority <= 2 database without content
min_rows == 50
\* priority up to which an application counts as high priority
high_priority == 2
\* priority of an application no catalog rule matches
default_priority == 5

\* ---------------------------------------------------------------- strings
\* Python: p in s
IsSubstr(p, s) ==
  \E i \in 0..(Len(s) - Len(p)) : \A j \in 1..Len(p) : s[i + j] = p[j]

\* Python: s.endswith(p)
EndsWith(s, p) ==
  /\ Len(p) <= Len(s)
  /\ \A j \in 1..Len(p) : s[Len(s) - Len(p) + j] = p[j]

\* Python: str.lower(), chunk by chunk
LowerChunk(c) ==
  CASE c = "Chat" -> "chat"
    [] c = "Note" -> "note"
    [] c = "Open" -> "open"
    [] c = "Room" -> "room"
    [] c = "DB_ERROR" -> "db_error"
    [] c = "COPY_ERROR" -> "copy_error"
    [] OTHER -> c

Lower(s) == [i \in 1..Len(s) |-> LowerChunk(s[i])]

Min(a, b) == IF a <= b THEN a ELSE b

RECURSIVE SumSeq(_)
SumSeq(s) == IF s = <<>> THEN 0 ELSE Head(s) + SumSeq(Tail(s))

RECURSIVE FlattenSeq(_)
FlattenSeq(ss) == IF ss = <<>> THEN <<>> ELSE Head(ss) \o FlattenSeq(Tail(ss))

\* the element of a singleton
The(S) == CHOOSE x \in S : TRUE

\* the concatenation of the sequences of ss, ss computed once
Flatten(ss) == The({FlattenSeq(v) : v \in {ss}})

\* ------------------------------------------------------- category catalog
get_app_categories ==
  <<[category |-> "messaging", priority |-> 1, apps |-> <<
        <<"com", ".", "kakao", ".", "talk">>,
        <<"jp", ".", "naver", ".", "line", ".", "android">>,
        <<"com", ".", "whatsapp">>,
        <<"com", ".", "facebook", ".", "orca">>,
        <<"com", ".", "discord">>,
        <<"org", ".", "telegram", ".", "messenger">>,
        <<"com", ".", "skype", ".", "raider">>,
        <<"com", ".", "viber", ".", "voip">>>>],
    [category |-> "social", priority |-> 2, apps |-> <<
        <<"com", ".", "instagram", ".", "android">>,
        <<"com", ".", "facebook", ".", "katana">>,
        <<"com", ".", "twitter", ".", "android">>,
        <<"com", ".", "snapchat", ".", "android">>,
        <<"com", ".", "tiktok", ".", "musically">>,
        <<"com", ".", "linkedin", ".", "android">>,
        <<"com", ".", "reddit", ".", "frontpage">>>>],
    [category |-> "media", priority |-> 2, apps |-> <<
        <<"com", ".", "spotify", ".", "music">>,
        <<"com", ".", "netflix", ".", "mediaclient">>,
        <<"com", ".", "youtube", ".", "android">>,
        <<"com", ".", "soundcloud", ".", "android">>,
        <<"com", ".", "coffeebeanventures", ".", "easyvoicerecorder">>,
        <<"com", ".", "google", ".", "android", ".", "apps", ".", "photos">>,
        <<"com", ".", "amazon", ".", "mp3">>>>],
    [category |-> "productivity", priority |-> 1, apps |-> <<
        <<"com", ".", "google", ".", "android", ".", "keep">>,
        <<"com", ".", "evernote">>,
        <<"com", ".", "microsoft", ".", "office", ".", "onenote">>,
        <<"com", ".", "todoist">>,
        <<"com", ".", "any", ".", "do">>,
        <<"com", ".", "dropbox", ".", "android">>,
        <<"com", ".", "notion", ".", "id">>>>],
    [category |-> "email", priority |-> 2, apps |-> <<
        <<"com", ".", "google", ".", "android", ".", "gm">>,
        <<"com", ".", "microsoft", ".", "office", ".", "outlook">>,
        <<"com", ".", "yahoo", ".", "mobile", ".", "client", ".", "android", ".", "mail">>,
        <<"com", ".", "apple", ".", "android", ".", "mail">>>>],
    [category |-> "navigation", priority |-> 3, apps |-> <<
        <<"net", ".", "daum", ".", "android", ".", "map">>,
        <<"com", ".", "google", ".", "android", ".", "apps", ".", "maps">>,
        <<"com", ".", "waze">>,
        <<"com", ".", "here", ".", "app", ".", "maps">>>>],
    [category |-> "system", priority |-> 4, apps |-> <<
        <<"com", ".", "google", ".", "android", ".", "gm", "s">>,
        <<"com", ".", "android", ".", "vending">>,
        <<"com", ".", "samsung">>,
        <<"com", ".", "sec", ".">>,
        <<"android">>,
        <<"com", ".", "google", ".", "android", ".", "gsf">>>>]>>

\* get_important_tables_by_app: the table of patterns, in dict order
table_patterns ==
  <<[app |-> <<"com", ".", "kakao", ".", "talk">>,
     patterns |-> <<<<"chat">>, <<"message">>, <<"friend">>, <<"room">>, <<"Open", "Chat", "Room">>>>],
    [app |-> <<"jp", ".", "naver", ".", "line", ".", "android">>,
     patterns |-> <<<<"chat">>, <<"message">>, <<"contact">>, <<"room">>, <<"group">>>>],
    [app |-> <<"com", ".", "whatsapp">>,
     patterns |-> <<<<"message", "s">>, <<"chat">>, <<"contact", "s">>, <<"group">>>>],
    [app |-> <<"com", ".", "google", ".", "android", ".", "keep">>,
     patterns |-> <<<<"note">>, <<"list">>, <<"reminder">>, <<"label">>>>],
    [app |-> <<"com", ".", "coffeebeanventures", ".", "easyvoicerecorder">>,
     patterns |-> <<<<"recording">>, <<"voice">>, <<"audio">>>>],
    [app |-> <<"com", ".", "instagram", ".", "android">>,
     patterns |-> <<<<"user">>, <<"media">>, <<"story">>, <<"direct">>>>],
    [app |-> <<"com", ".", "spotify", ".", "music">>,
     patterns |-> <<<<"track">>, <<"play", "list">>, <<"user">>, <<"offline">>>>],
    [app |-> <<"com", ".", "netflix", ".", "mediaclient">>,
     patterns |-> <<<<"pro", "file">>, <<"viewing">>, <<"download">>>>],
    [app |-> <<"com", ".", "google", ".", "android", ".", "gm">>,
     patterns |-> <<<<"message">>, <<"conversation">>, <<"label">>, <<"attachment">>>>],
    [app |-> <<"com", ".", "evernote">>,
     patterns |-> <<<<"note">>, <<"note", "book">>, <<"tag">>, <<"resource">>>>],
    [app |-> <<"com", ".", "dropbox", ".", "android">>,
     patterns |-> <<<<"file">>, <<"sync">>, <<"account">>>>],
    [app |-> <<"com", ".", "discord">>,
     patterns |-> <<<<"message">>, <<"channel">>, <<"guild">>, <<"user">>>>],
    [app |-> <<"org", ".", "telegram", ".", "messenger">>,
     patterns |-> <<<<"message">>, <<"chat">>, <<"contact">>, <<"media">>>>]>>

\* application folder names of the inputs
A_whatsapp == <<"com", ".", "whatsapp">>  \* com.whatsapp
A_evernote == <<"com", ".", "evernote">>  \* com.evernote
A_instagram == <<"com", ".", "instagram", ".", "android">>  \* com.instagram.android
A_gms == <<"com", ".", "google", ".", "android", ".", "gm", "s">>  \* com.google.android.gms
A_dual == <<"com", ".", "discord", ".", "com", ".", "spotify", ".", "music">>  \* com.discord.com.spotify.music
A_waze == <<"com", ".", "waze">>  \* com.waze
A_vending == <<"com", ".", "android", ".", "vending">>  \* com.android.vending
A_notes == <<"com", ".", "example", ".", "notes">>  \* com.example.notes
A_dot == <<".">>  \* .
A_dotdot == <<".", ".">>  \* ..
A_lost == <<"lost+found">>  \* lost+found

\* table names of the inputs; the two sentinel names of the analyzer
T_messages == <<"message", "s">>  \* messages
T_chat_list == <<"chat", "_", "list">>  \* chat_list
T_Notes == <<"Note", "s">>  \* Notes
T_props == <<"props">>  \* props
T_metadata == <<"android_metadata">>  \* android_metadata
T_DB_ERROR == <<"DB_ERROR">>  \* DB_ERROR
T_COPY_ERROR == <<"COPY_ERROR">>  \* COPY_ERROR

\* file names of the inputs
F_msgstore == <<"msgstore", ".", "db">>  \* msgstore.db
F_wa == <<"wa", ".", "db">>  \* wa.db
F_journal == <<"msgstore", ".", "db", "-journal">>  \* msgstore.db-journal
F_notes == <<"notes", ".", "db">>  \* notes.db
F_dot == <<".">>  \* .
F_dotdot == <<".", ".">>  \* ..
F_ext == <<".", "db">>  \* .db

\* e-mail addresses of the inputs, and the denylist of generic addresses
E_alice == <<"alice@example.com">>  \* alice@example.com
E_noreply == <<"noreply", "@service.com">>  \* noreply@service.com
E_noreply2 == <<"no-reply", "@service.com">>  \* no-reply@service.com
E_support == <<"bob@", "support", ".org">>  \* bob@support.org
E_bob == <<"bob@mail.net">>  \* bob@mail.net
D_noreply == <<"noreply">>  \* noreply
D_no_reply == <<"no-reply">>  \* no-reply
D_support == <<"support">>  \* support

\* ------------------------------------------------------ database contents
\* A cell text is a sequence of tokens: a Hangul syllable, an e-mail shaped
\* substring (with its address), or any other text.
Hangul == [kind |-> "hangul", addr |-> <<>>]
Other == [kind |-> "other", addr |-> <<>>]
Email(a) == [kind |-> "email", addr |-> a]

\* a cell: SQL NULL (Python None) or a value with its text
NoneCell == [isNone |-> TRUE, text |-> <<>>]
Cell(t) == [isNone |-> FALSE, text |-> t]

R_plain == <<Cell(<<Other>>), NoneCell>>
R_kor == <<Cell(<<Hangul, Hangul, Other, Hangul>>)>>
R_alice == <<Cell(<<Other, Email(E_alice)>>)>>
R_bob == <<NoneCell, Cell(<<Email(E_bob)>>)>>
R_noreply_alice == <<Cell(<<Email(E_noreply), Other, Email(E_alice)>>)>>
R_alice_noreply == <<Cell(<<Email(E_alice), Email(E_noreply)>>)>>
R_support_bob == <<Cell(<<Email(E_support)>>), Cell(<<Email(E_bob)>>)>>
R_noreply2 == <<Cell(<<Email(E_noreply2)>>)>>

\* every row after the leading rows of a table
FillerRow == <<Cell(<<Other>>)>>

\* A table of a database file: its name, its columns, its true cardinality,
\* its leading rows (the others are filler rows), and whether a query on it
\* raises.
Table(name, nrows, head, bad) ==
  [name |-> name, columns |-> <<"c1", "c2">>, nrows |-> nrows, head |-> head,
   bad |-> bad]

\* row i of table t (1-based, i <= t.nrows)
RowAt(t, i) == IF i <= Len(t.head) THEN t.head[i] ELSE FillerRow

\* A database file: whether SQLite can open it and list its tables, and its
\* tables in the order of sqlite_master.
Db(corrupt, tables) == [corrupt |-> corrupt, tables |-> tables]

DB_empty == Db(FALSE, <<>>)
DB_corrupt == Db(TRUE, <<Table(T_messages, 3, <<R_kor>>, FALSE)>>)
DB_kor_small == Db(FALSE, <<Table(T_props, 0, <<>>, FALSE),
                            Table(T_messages, 3, <<R_plain, R_kor>>, FALSE)>>)
DB_plain_big == Db(FALSE, <<Table(T_props, 1000, <<R_plain>>, FALSE)>>)
DB_plain_49 == Db(FALSE, <<Table(T_props, 20, <<R_plain>>, FALSE),
                           Table(T_chat_list, 29, <<R_plain>>, FALSE)>>)
DB_plain_50 == Db(FALSE, <<Table(T_props, 20, <<R_plain>>, FALSE),
                           Table(T_Notes, 30, <<R_plain>>, FALSE)>>)
DB_deny_first == Db(FALSE, <<Table(T_metadata, 1, <<R_noreply2>>, FALSE),
                             Table(T_messages, 2, <<R_noreply_alice>>, FALSE)>>)
DB_deny_last == Db(FALSE, <<Table(T_chat_list, 2, <<R_plain, R_alice_noreply>>, FALSE)>>)
DB_bad_table == Db(FALSE, <<Table(T_props, 60, <<R_plain>>, FALSE),
                            Table(T_messages, 5, <<R_alice>>, TRUE),
                            Table(T_Notes, 12, <<R_support_bob>>, FALSE)>>)
DB_bob == Db(FALSE, <<Table(T_props, 3, <<R_bob, R_kor>>, FALSE)>>)
DB_only_bad == Db(FALSE, <<Table(T_messages, 5, <<R_alice>>, TRUE)>>)

\* ------------------------------------------------------ content classifier
\* str(cell) if cell is not None else ""
CellStr(cell) == IF cell.isNone THEN <<>> ELSE cell.text

IsHangul(tok) == tok.kind = "hangul"
IsEmail(tok) == tok.kind = "email"

has_korean_text(text) == \E i \in 1..Len(text) : IsHangul(text[i])

has_email_pattern(text) == \E i \in 1..Len(text) : IsEmail(text[i])

count_korean_chars(text) == Len(SelectSeq(text, IsHangul))

\* the addresses of the matches, left to right
extract_emails(text) ==
  LET m == SelectSeq(text, IsEmail) IN [i \in 1..Len(m) |-> m[i].addr]

\* the cells of the rows, row by row
CellsOf(rows) == Flatten(rows)

KoreanOfCell(cell) ==
  IF has_korean_text(CellStr(cell)) THEN count_korean_chars(CellStr(cell)) ELSE 0

\* EmailsOfCell that counts every address of a cell once
EmailsOfCell_Distinct(cell) ==
  LET emails == extract_emails(CellStr(cell))
  IN  Cardinality({emails[i] : i \in 1..Len(emails)})

EmailsOfCell(cell) ==
  IF has_email_pattern(CellStr(cell)) THEN Len(extract_emails(CellStr(cell))) ELSE 0

analyze_table_content(table_info) ==
  LET cells == CellsOf(table_info.rows)
      korean_count == SumSeq([i \in 1..Len(cells) |-> KoreanOfCell(cells[i])])
      email_count == SumSeq([i \in 1..Len(cells) |-> EmailsOfCell(cells[i])])
  IN  [table_info EXCEPT
         !.has_korean = \E i \in 1..Len(cells) : has_korean_text(CellStr(cells[i])),
         !.has_email = \E i \in 1..Len(cells) : has_email_pattern(CellStr(cells[i])),
         !.korean_count = korean_count,
         !.email_count = email_count]

\* ------------------------------------------------------ SQLite introspector
\* the patterns of the first entry whose key is inside app_name; <<>> is None
RECURSIVE FirstPatterns(_, _)
FirstPatterns(entries, app_name) ==
  IF entries = <<>> THEN <<>>
  ELSE IF IsSubstr(Head(entries).app, app_name) THEN Head(entries).patterns
  ELSE FirstPatterns(Tail(entries), app_name)

get_important_tables_by_app(app_name) == FirstPatterns(table_patterns, app_name)

\* any(pattern.lower() in table.lower() for pattern in important_patterns)
MatchesPatterns(table, important_patterns) ==
  \E k \in 1..Len(important_patterns) :
    IsSubstr(Lower(important_patterns[k]), Lower(table))

\* TableOrder that keeps the important tables only
TableOrder_ImportantOnly(all_tables, important_patterns) ==
  IF important_patterns # <<>>
  THEN LET imp(t) == MatchesPatterns(t.name, important_patterns)
       IN  SelectSeq(all_tables, imp)
  ELSE all_tables

\* important tables first, the others after, each group in enumeration order
TableOrder(all_tables, important_patterns) ==
  IF important_patterns # <<>>
  THEN LET imp(t) == MatchesPatterns(t.name, important_patterns)
           oth(t) == ~MatchesPatterns(t.name, important_patterns)
       IN  SelectSeq(all_tables, imp) \o SelectSeq(all_tables, oth)
  ELSE all_tables

\* TableInfo whose row_count is the size of the sample
TableInfo_CountsSample(t, important_patterns, limit) ==
  analyze_table_content(
    [table |-> t.name, columns |-> t.columns,
     rows |-> [i \in 1..Min(t.nrows, limit) |-> RowAt(t, i)],
     row_count |-> Min(t.nrows, limit),
     is_important |-> important_patterns # <<>>
                      /\ MatchesPatterns(t.name, important_patterns),
     has_korean |-> FALSE, has_email |-> FALSE,
     korean_count |-> 0, email_count |-> 0, error |-> FALSE])

\* what the three queries on one table return
TableInfo(t, important_patterns, limit) ==
  analyze_table_content(
    [table |-> t.name, columns |-> t.columns,
     rows |-> [i \in 1..Min(t.nrows, limit) |-> RowAt(t, i)],
     row_count |-> t.nrows,
     is_important |-> important_patterns # <<>>
                      /\ MatchesPatterns(t.name, important_patterns),
     has_korean |-> FALSE, has_email |-> FALSE,
     korean_count |-> 0, email_count |-> 0, error |-> FALSE])

\* the row that holds the error text of a sentinel entry
ErrorRow == <<Cell(<<Other>>)>>

\* a sentinel entry; COPY_ERROR has only table, columns and rows, and every
\* reader takes the other keys with .get(key, 0 or False)
Sentinel(name) ==
  [table |-> name, columns |-> <<>>, rows |-> <<ErrorRow>>, row_count |-> 0,
   is_important |-> FALSE, has_korean |-> FALSE, has_email |-> FALSE,
   korean_count |-> 0, email_count |-> 0, error |-> TRUE]

\* TableLoop that gives up the database at the first table whose query raises
TableLoop_StopAtFailure(db, app_name, limit) ==
  LET important_patterns == get_important_tables_by_app(app_name)
      table_names == TableOrder(db.tables, important_patterns)
      bad == {i \in 1..Len(table_names) : table_names[i].bad}
      last == IF bad = {} THEN Len(table_names)
              ELSE CHOOSE i \in bad : \A j \in bad : i <= j
  IN  [i \in 1..last |->
         IF table_names[i].bad THEN Sentinel(table_names[i].name)
         ELSE TableInfo(table_names[i], important_patterns, limit)]

\* the loop over the tables of an opened database
TableLoop(db, app_name, limit) ==
  LET important_patterns == get_important_tables_by_app(app_name)
      table_names == TableOrder(db.tables, important_patterns)
  IN  [i \in 1..Len(table_names) |->
         IF table_names[i].bad THEN Sentinel(table_names[i].name)
         ELSE TableInfo(table_names[i], important_patterns, limit)]

\* AnalyzeCopy that returns the empty summary when the database cannot be read
AnalyzeCopy_EmptyOnError(db, app_name, limit) ==
  IF db.corrupt THEN <<>> ELSE TableLoop(db, app_name, limit)

\* the summary analyze_sqlite_db returns for a working copy it could make
AnalyzeCopy(db, app_name, limit) ==
  IF db.corrupt THEN <<Sentinel(T_DB_ERROR)>> ELSE TableLoop(db, app_name, limit)

\* ------------------------------------------- relevance scorer and aggregator
\* a candidate path <root>/<app>/databases/<file>, by its two variable parts
Path(app, file) == [app |-> app, file |-> file]

\* rel_path.split('/')[0] of a candidate path
AppOf(path) == path.app

\* os.path.basename of a candidate path
Basename(path) == path.file

AnyPatternIn(apps, app_name) ==
  \E k \in 1..Len(apps) : IsSubstr(apps[k], app_name)

\* category and priority of the first catalog rule, in catalog order, one of
\* whose identifiers is inside app_name
RECURSIVE FirstCategory(_, _)
FirstCategory(cats, app_name) ==
  IF cats = <<>> THEN [category |-> "etc", priority |-> default_priority]
  ELSE IF AnyPatternIn(Head(cats).apps, app_name)
       THEN [category |-> Head(cats).category, priority |-> Head(cats).priority]
       ELSE FirstCategory(Tail(cats), app_name)

ScorerCategory(app_name) == FirstCategory(get_app_categories, app_name)

\* no principal identity yet (Python None)
NoAccount == <<>>

Denylist == <<D_noreply, D_no_reply, D_support>>

Denylisted(addr) == \E k \in 1..Len(Denylist) : IsSubstr(Denylist[k], addr)

\* the address a cell offers as principal identity, or NoAccount
AccountOfCell(cell) ==
  LET emails == extract_emails(CellStr(cell))
  IN  IF emails # <<>> /\ ~Denylisted(emails[1]) THEN emails[1] ELSE NoAccount

\* the offer of the first cell that makes one
RECURSIVE FirstOffer(_)
FirstOffer(cells) ==
  IF cells = <<>> THEN NoAccount
  ELSE IF AccountOfCell(Head(cells)) # NoAccount THEN AccountOfCell(Head(cells))
  ELSE FirstOffer(Tail(cells))

AccountOfRows(rows) == FirstOffer(CellsOf(rows))

IsSentinelName(name) == name \in {T_DB_ERROR, T_COPY_ERROR}

\* TablesWithData without the test of row_count
TablesWithData_NoRowTest(tables) ==
  LET keep(t) == ~IsSentinelName(t.table)
  IN  SelectSeq(tables, keep)

\* the tables of one summary the scorer looks at: not DB_ERROR/COPY_ERROR and
\* with row_count > 0
TablesWithData(tables) ==
  LET keep(t) == ~IsSentinelName(t.table) /\ t.row_count > 0
  IN  SelectSeq(tables, keep)

\* main_account after the tables of one summary
RECURSIVE AccountAfter(_, _)
AccountAfter(main_account, tabs) ==
  IF tabs = <<>> THEN main_account
  ELSE AccountAfter(
         IF main_account = NoAccount /\ Head(tabs).has_email
         THEN AccountOfRows(Head(tabs).rows) ELSE main_account,
         Tail(tabs))

\* IsImportantData that looks at the name of the table only
IsImportantData_NameOnly(t) == t.is_important

\* IsImportantData that looks at the content of the table only
IsImportantData_ContentOnly(t) == t.has_korean \/ t.has_email

IsImportantData(t) == t.is_important \/ t.has_korean \/ t.has_email

ImportantData(tables) == SelectSeq(TablesWithData(tables), IsImportantData)

OtherData(tables) ==
  LET oth(t) == ~IsImportantData(t) IN SelectSeq(TablesWithData(tables), oth)

RowTotal(tabs) == SumSeq([i \in 1..Len(tabs) |-> tabs[i].row_count])

\* HasMeaningfulData with the row minimum taken as exclusive
HasMeaningfulData_StrictMin(priority, important_data, other_data) ==
  LET all == important_data \o other_data
      hasK(t) == t.has_korean
      hasE(t) == t.has_email
  IN  /\ important_data # <<>> \/ (priority <= high_priority /\ other_data # <<>>)
      /\ \/ SelectSeq(all, hasK) # <<>>
         \/ SelectSeq(all, hasE) # <<>>
         \/ priority <= high_priority /\ RowTotal(all) > min_rows

\* the decision to register one database as evidence
HasMeaningfulData(priority, important_data, other_data) ==
  LET all == important_data \o other_data
      hasK(t) == t.has_korean
      hasE(t) == t.has_email
  IN  /\ important_data # <<>> \/ (priority <= high_priority /\ other_data # <<>>)
      /\ \/ SelectSeq(all, hasK) # <<>>
         \/ SelectSeq(all, hasE) # <<>>
         \/ priority <= high_priority /\ RowTotal(all) >= min_rows

EvidenceItem(id, entry) ==
  LET cat == ScorerCategory(AppOf(entry.path))
      important_data == ImportantData(entry.tables)
      other_data == OtherData(entry.tables)
      hasK(t) == t.has_korean
      hasE(t) == t.has_email
  IN  [id |-> id, app_name |-> AppOf(entry.path), db_path |-> entry.path,
       category |-> cat.category, priority |-> cat.priority,
       important_tables |-> important_data, other_tables |-> other_data,
       total_rows |-> RowTotal(important_data \o other_data),
       korean_data |-> SelectSeq(important_data \o other_data, hasK),
       email_data |-> SelectSeq(important_data \o other_data, hasE)]

Included(entry) ==
  HasMeaningfulData(ScorerCategory(AppOf(entry.path)).priority,
                    ImportantData(entry.tables), OtherData(entry.tables))

\* the loop over db_summaries.items(): acc holds main_account and
\* evidence_items (evidence_counter is Len(evidence_items) + 1)
RECURSIVE ScoreLoop(_, _)
ScoreLoop(acc, summaries) ==
  IF summaries = <<>> THEN acc
  ELSE LET entry == Head(summaries)
           account == AccountAfter(acc.main_account, TablesWithData(entry.tables))
           items == IF Included(entry)
                    THEN Append(acc.evidence_items,
                                EvidenceItem(Len(acc.evidence_items) + 1, entry))
                    ELSE acc.evidence_items
       IN  ScoreLoop([main_account |-> account, evidence_items |-> items],
                     Tail(summaries))

\* EvidenceBefore with the sign of total_rows lost
EvidenceBefore_Ascending(a, b) ==
  \/ a.priority < b.priority
  \/ a.priority = b.priority /\ a.total_rows < b.total_rows

\* the sort key of evidence_items: (priority, -total_rows)
EvidenceBefore(a, b) ==
  \/ a.priority < b.priority
  \/ a.priority = b.priority /\ (0 - a.total_rows) < (0 - b.total_rows)

\* InsertSorted of a sort that puts x before the elements that tie with it
RECURSIVE InsertSorted_TiesFirst(_, _)
InsertSorted_TiesFirst(sorted, x) ==
  IF sorted = <<>> THEN <<x>>
  ELSE IF ~EvidenceBefore(Head(sorted), x) THEN <<x>> \o sorted
  ELSE <<Head(sorted)>> \o InsertSorted_TiesFirst(Tail(sorted), x)

\* list.sort(key=...): a stable sort; x goes after every element that is
\* not after it
RECURSIVE InsertSorted(_, _)
InsertSorted(sorted, x) ==
  IF sorted = <<>> THEN <<x>>
  ELSE IF EvidenceBefore(x, Head(sorted)) THEN <<x>> \o sorted
  ELSE <<Head(sorted)>> \o InsertSorted(Tail(sorted), x)

RECURSIVE SortEvidence(_)
SortEvidence(items) ==
  IF items = <<>> THEN <<>>
  ELSE InsertSorted(SortEvidence(SubSeq(items, 1, Len(items) - 1)),
                    items[Len(items)])

\* what generate_html_forensic_report computes before it renders
Score(summaries) ==
  LET acc == ScoreLoop([main_account |-> NoAccount, evidence_items |-> <<>>],
                       summaries)
  IN  [main_account |-> acc.main_account,
       evidence_items |-> SortEvidence(acc.evidence_items)]

\* ------------------------------------------------------------ device images
\* one line of "ls -la <dir>/databases" that has nine fields or more
FileLine(kind, name, size, db) == [kind |-> kind, name |-> name, size |-> size, db |-> db]

\* one line of "ls -la <root>/data" that has nine fields or more
DirLine(kind, name, files) == [kind |-> kind, name |-> name, files |-> files]

DotLines == <<DirLine("d", A_dot, <<>>), DirLine("d", A_dotdot, <<>>)>>

Image(rootExists, lines) == [rootExists |-> rootExists, lines |-> lines]

Img_plain ==
  Image(TRUE, DotLines \o
    <<DirLine("d", A_lost, <<>>),
      DirLine("d", A_whatsapp,
        <<FileLine("d", F_dot, 0, DB_empty),
          FileLine("-", F_wa, 100, DB_deny_first),
          FileLine("-", F_journal, 7, DB_empty),
          FileLine("-", F_msgstore, 300, DB_kor_small)>>),
      DirLine("d", A_instagram, <<FileLine("-", F_msgstore, 10, DB_bad_table)>>),
      DirLine("d", A_notes, <<FileLine("-", F_notes, 50, DB_plain_big)>>)>>)

Img_dual ==
  Image(TRUE, DotLines \o
    <<DirLine("d", A_dual, <<FileLine("-", F_msgstore, 20, DB_plain_50)>>)>>)

Img_mixed ==
  Image(TRUE, DotLines \o
    <<DirLine("d", A_gms, <<FileLine("-", F_wa, 5, DB_corrupt)>>),
      DirLine("d", A_waze, <<FileLine("-", F_wa, 9, DB_bob)>>),
      DirLine("-", A_vending, <<>>),
      DirLine("d", A_evernote, <<FileLine("-", F_wa, 40, DB_bob)>>)>>)

Img_bare == Image(TRUE, DotLines)

Img_noroot == Image(FALSE, <<>>)

\* one application whose only database has no table
Img_void ==
  Image(TRUE, DotLines \o
    <<DirLine("d", A_whatsapp, <<FileLine("-", F_msgstore, 8, DB_empty)>>)>>)

Images == {Img_plain, Img_dual, Img_mixed, Img_bare, Img_noroot, Img_void}

\* the file a candidate path names on an image
RECURSIVE FindLine(_, _)
FindLine(lines, name) ==
  IF Head(lines).name = name THEN Head(lines) ELSE FindLine(Tail(lines), name)

DbAt(img, path) == FindLine(FindLine(img.lines, path.app).files, path.file).db

\* ------------------------------------------------------- filesystem scanner
\* stage 1: the application folders of a successful listing of <root>/data
AppFolders(lines) ==
  LET isApp(l) == /\ l.kind = "d"
                  /\ IsSubstr(<<".">>, l.name)
                  /\ l.name \notin {A_dot, A_dotdot}
      dirs == SelectSeq(lines, isApp)
  IN  [i \in 1..Len(dirs) |-> dirs[i].name]

\* the folders one identifier selects, in listing order
AppsOfPattern(cat, app_pattern, app_folders) ==
  LET hit(app_name) == IsSubstr(app_pattern, app_name)
      names == SelectSeq(app_folders, hit)
  IN  [i \in 1..Len(names) |->
         [app_name |-> names[i], category |-> cat.category, priority |-> cat.priority]]

\* the folders one category selects: identifier by identifier
AppsOfCategory(cat, app_folders) ==
  IF cat.priority <= high_priority
  THEN Flatten([k \in 1..Len(cat.apps) |-> AppsOfPattern(cat, cat.apps[k], app_folders)])
  ELSE <<>>

\* stage 2: priority_apps, category by category in catalog order
PriorityApps(app_folders) ==
  Flatten([c \in 1..Len(get_app_categories) |->
             AppsOfCategory(get_app_categories[c], app_folders)])

\* the db_info entries of one probed application; lsFails: the listing of its
\* databases folder fails, raises or times out; statFails: the paths whose
\* size query fails
DbInfosOfApp(img, app, lsFails, statFails) ==
  LET isDb(f) == f.kind # "d" /\ EndsWith(f.name, F_ext) /\ f.name \notin {F_dot, F_dotdot}
      files == IF lsFails THEN <<>>
               ELSE SelectSeq(FindLine(img.lines, app.app_name).files, isDb)
  IN  [i \in 1..Len(files) |->
         [path |-> Path(app.app_name, files[i].name),
          app_name |-> app.app_name, db_name |-> files[i].name,
          size_bytes |-> IF Path(app.app_name, files[i].name) \in statFails
                         THEN 0 ELSE files[i].size,
          category |-> app.category, priority |-> app.priority]]

\* InfoBefore with the sign of size_bytes lost
InfoBefore_Ascending(a, b) ==
  \/ a.priority < b.priority
  \/ a.priority = b.priority /\ a.size_bytes < b.size_bytes

\* the sort key of db_info_list: (priority, -size_bytes)
InfoBefore(a, b) ==
  \/ a.priority < b.priority
  \/ a.priority = b.priority /\ (0 - a.size_bytes) < (0 - b.size_bytes)

RECURSIVE InsertInfo(_, _)
InsertInfo(sorted, x) ==
  IF sorted = <<>> THEN <<x>>
  ELSE IF InfoBefore(x, Head(sorted)) THEN <<x>> \o sorted
  ELSE <<Head(sorted)>> \o InsertInfo(Tail(sorted), x)

RECURSIVE SortInfos(_)
SortInfos(infos) ==
  IF infos = <<>> THEN <<>>
  ELSE The({InsertInfo(sorted, infos[Len(infos)]) :
              sorted \in {SortInfos(SubSeq(infos, 1, Len(infos) - 1))}})

\* find_database_files with a failed listing ending the scan without candidates
find_database_files_FailureEndsScan(img, lsRoot, lsFail, statFails) ==
  IF ~img.rootExists \/ lsFail # {} THEN <<>>
  ELSE LET app_folders == IF lsRoot = "ok" THEN AppFolders(img.lines) ELSE <<>>
           Probe(priority_apps) ==
             Flatten([k \in 1..Len(priority_apps) |->
                        DbInfosOfApp(img, priority_apps[k], FALSE, statFails)])
       IN  The({SortInfos(found) :
                  found \in {Probe(apps) : apps \in {PriorityApps(app_folders)}}})

\* db_info_list of find_database_files, sorted; lsRoot is the outcome of the
\* listing of <root>/data, lsFail the set of positions in priority_apps
\* whose listing fails
find_database_files(img, lsRoot, lsFail, statFails) ==
  IF ~img.rootExists THEN <<>>
  ELSE LET app_folders == IF lsRoot = "ok" THEN AppFolders(img.lines) ELSE <<>>
           Probe(priority_apps) ==
             Flatten([k \in 1..Len(priority_apps) |->
                        DbInfosOfApp(img, priority_apps[k], k \in lsFail, statFails)])
       IN  The({SortInfos(found) :
                  found \in {Probe(apps) : apps \in {PriorityApps(app_folders)}}})

\* the positions in priority_apps of an image whose root listing succeeded
ProbePositions(img) ==
  IF img.rootExists THEN 1..Len(PriorityApps(AppFolders(img.lines))) ELSE {}

\* every path a probe of the image can yield
ProbePaths(img) ==
  {i.path : i \in {find_database_files(img, "ok", {}, {})[k] :
                     k \in 1..Len(find_database_files(img, "ok", {}, {}))}}

\* ------------------------------------------------------- secure copy/sandbox
\* one external operation: what is done, on what, and by which method.  on is
\* "image" for a path under the mounted image, "workspace" for a path under
\* the temporary directory, "mountpoint" for the mount point itself.
Op(op, on, by) == [op |-> op, on |-> on, by |-> by]

\* copy_db_with_sudo returned None
NoCopy == [ok |-> FALSE, temp |-> <<>>]

\* The outcomes of the external steps of one copy.  cp: "ok", a non-zero exit
\* ("fail") or the 60 s timeout, each with or without a destination file
\* already created; chmod, chown: "ok", a non-zero exit ("fail") or an
\* exception, timeout included ("raise"); readable: whether the copy can be
\* read although neither chmod nor chown succeeded.
CopyOutcomes ==
  {o \in [cp : {"ok"}, chmod : {"ok", "fail", "raise"},
           chown : {"ok", "fail", "raise"}, readable : BOOLEAN] :
     (o.chmod = "ok" \/ o.chown = "ok") => o.readable}
  \cup
  {[cp |-> c, chmod |-> "skipped", chown |-> "skipped", readable |-> FALSE] :
     c \in {"fail", "fail_partial", "timeout", "timeout_partial"}}

\* CopyReturn with a failed chmod or chown treated like a failed cp
CopyReturn_StepsFatal(src, o, files) ==
  IF o.cp # "ok" \/ o.chmod # "ok" \/ o.chown # "ok" THEN NoCopy
  ELSE IF Basename(src) \notin files THEN NoCopy
  ELSE [ok |-> TRUE, temp |-> Basename(src)]

\* the value copy_db_with_sudo returns; files: the workspace after cp
CopyReturn(src, o, files) ==
  IF o.cp # "ok" THEN NoCopy
  ELSE IF Basename(src) \notin files THEN NoCopy
  ELSE [ok |-> TRUE, temp |-> Basename(src)]

\* copy_db_with_sudo(src, temp_dir) under outcome o, files being the names
\* in the workspace before the call
copy_db_with_sudo(src, o, files) ==
  LET afterCp == IF o.cp \in {"ok", "fail_partial", "timeout_partial"}
                 THEN files \cup {Basename(src)} ELSE files
  IN  [ret |-> CopyReturn(src, o, afterCp),
       files |-> afterCp,
       ops |-> {Op("stat", "image", "copy_db_with_sudo"),
                Op("cp_read", "image", "copy_db_with_sudo"),
                Op("cp_write", "workspace", "copy_db_with_sudo")}
               \cup (IF o.cp = "ok"
                     THEN {Op("chmod", "workspace", "copy_db_with_sudo"),
                           Op("chown", "workspace", "copy_db_with_sudo")}
                     ELSE {})]

\* the files left in the workspace by the finally block of analyze_sqlite_db
AfterFinally(copied, files) ==
  IF copied.ok /\ copied.temp \in files THEN files \ {copied.temp} ELSE files

\* analyze_sqlite_db(src, app_name) with self.temp_dir set; opened is what
\* the connection and the table loop yield on a readable copy
analyze_sqlite_db(src, opened, o, files) ==
  LET c == copy_db_with_sudo(src, o, files)
      canRead == o.chmod = "ok" \/ o.chown = "ok" \/ o.readable
  IN  [copied |-> c.ret,
       summary |-> IF ~c.ret.ok THEN <<Sentinel(T_COPY_ERROR)>>
                   ELSE IF ~canRead THEN <<Sentinel(T_DB_ERROR)>>
                   ELSE opened,
       files |-> AfterFinally(c.ret, c.files),
       ops |-> c.ops \cup
               (IF c.ret.ok
                THEN {Op("sqlite", "workspace", "analyze_sqlite_db"),
                      Op("remove", "workspace", "analyze_sqlite_db")}
                ELSE {})]

\* ------------------------------------------------------------------- state
VARIABLES
  pc,                  \* position in run_forensic_analysis
  image,               \* the device image being examined
  temp_dir,            \* the temporary workspace directory exists
  tmpFiles,            \* names of the files in the workspace
  mounted,             \* the image is mounted on the mount point
  mount_point,         \* the mount point directory exists
  mount_log,           \* the attempts mount_img has made, in order
  db_info_list,        \* find_database_files: the sorted candidate records
  db_files,            \* the candidate paths handed to the loop
  idx,                 \* the loop counter i of the analysis loop
  db_summaries,        \* path -> tables, in insertion order
  successful_analyses,
  failed_analyses,
  analysed,            \* one record per analyze_sqlite_db call, in call order
  last_call,           \* the outcomes and the copy of the latest call
  scan_call,           \* the outcomes of the commands of the scan
  interrupted,         \* a KeyboardInterrupt was delivered to the run
  ops,                 \* the external operations issued so far
  evidence_items,      \* the scorer's ranked list
  main_account,        \* the scorer's principal identity
  ret,                 \* what run_forensic_analysis returned or raised
  main_pc,             \* position in main
  stage_log,           \* the stages main has started, in order
  checks,              \* how each check of main ended
  timezone_info,       \* metadata holds the key timezone_info
  finalize_calls,      \* the arguments of every finalize_log call, in order
  main_exit,           \* how main ended
  db_analysis_results, \* wa.py: path -> result, in insertion order
  report               \* wa.py: the sections written to the report file

\* the variables of main
mainVars == <<main_pc, stage_log, checks, timezone_info, finalize_calls, main_exit>>

vars == <<pc, image, temp_dir, tmpFiles, mounted, mount_point, mount_log,
          db_info_list, db_files, idx, db_summaries, successful_analyses,
          failed_analyses, analysed, last_call, scan_call, interrupted, ops,
          evidence_items, main_account, ret, main_pc, stage_log, checks,
          timezone_info, finalize_calls, main_exit, db_analysis_results, report>>

\* the variables of main of wa.py
simpleVars == <<db_analysis_results, report>>

\* main of wa.py is not running
SimpleIdle == db_analysis_results = <<>> /\ report = <<>>

\* ---------------------------------------------------- run_forensic_analysis
\* the outcomes of the commands of one scan
ScanCall(lsRoot, lsFail, statFails) ==
  [lsRoot |-> lsRoot, lsFail |-> lsFail, statFails |-> statFails]

\* find_database_files has not been called
NoScan == ScanCall("none", {}, {})

\* how the checks of main have ended when it calls run_forensic_analysis
\* with passwordless sudo
ChecksPassed ==
  [prerequisites |-> "passed", decryption |-> "passed", decrypted_file |-> "passed",
   linux |-> "passed", sudo |-> "passwordless"]

\* the stages of main in the order of the source
main_stages == <<"system_info", "prerequisites", "decryption", "forensic">>

\* main has just called run_forensic_analysis
MainAtForensic ==
  /\ main_pc = "forensic"
  /\ stage_log = main_stages
  /\ checks = ChecksPassed
  /\ timezone_info = TRUE
  /\ finalize_calls = <<>>
  /\ main_exit = "none"

\* no call of analyze_sqlite_db yet
NoCall == [outcome |-> [cp |-> "none", chmod |-> "none", chown |-> "none",
                        readable |-> FALSE],
           copied |-> NoCopy]

Init ==
  /\ pc = "start"
  /\ image \in Images
  /\ temp_dir = FALSE
  /\ tmpFiles = {}
  /\ mounted = FALSE
  /\ mount_point \in BOOLEAN
  /\ mount_log = <<>>
  /\ db_info_list = <<>>
  /\ db_files = <<>>
  /\ idx = 0
  /\ db_summaries = <<>>
  /\ successful_analyses = 0
  /\ failed_analyses = 0
  /\ analysed = <<>>
  /\ last_call = NoCall
  /\ scan_call = NoScan
  /\ interrupted = FALSE
  /\ ops = {}
  /\ evidence_items = <<>>
  /\ main_account = NoAccount
  /\ ret = "none"
  /\ MainAtForensic
  /\ SimpleIdle

\* the existence check of the decrypted file and tempfile.mkdtemp
Start ==
  /\ pc = "start"
  /\ UNCHANGED <<mainVars, simpleVars>>
  /\ \E exists \in BOOLEAN :
       IF exists
       THEN /\ temp_dir' = TRUE
            /\ pc' = "mount"
            /\ ret' = ret
       ELSE /\ temp_dir' = temp_dir
            /\ pc' = "rejected"
            /\ ret' = "False"
  /\ UNCHANGED <<image, tmpFiles, mounted, mount_point, mount_log, db_info_list,
                 db_files, idx, db_summaries, successful_analyses,
                 failed_analyses, analysed, last_call, scan_call, interrupted, ops,
                 evidence_items,
                 main_account>>

mount_options ==
  <<<<"loop", "ro", "noload">>, <<"loop", "ro">>, <<"ro", "noload">>, <<"ro">>>>

\* one attempt of mount_img: the options of "sudo mount -o" and whether the
\* command exited with zero ("ok") or not, timed out or raised ("failed")
MountAttempt(options, out) ==
  [options |-> options, result |-> IF out = "ok" THEN "ok" ELSE "failed"]

\* Attempts of a loop without the break at the first success
Attempts_NoBreak(outs, i) == Len(outs)

\* the number of attempts mount_img makes under the outcomes outs
RECURSIVE Attempts(_, _)
Attempts(outs, i) ==
  IF i > Len(outs) THEN Len(outs)
  ELSE IF outs[i] = "ok" THEN i
  ELSE Attempts(outs, i + 1)

\* mount_img, and the handler of the RuntimeError it raises
MountImg ==
  /\ pc = "mount"
  /\ UNCHANGED <<mainVars, simpleVars>>
  /\ \E outs \in [1..Len(mount_options) -> {"ok", "fail", "timeout"}] :
       LET n == Attempts(outs, 1) IN
       /\ mount_log' = [i \in 1..n |-> MountAttempt(mount_options[i], outs[i])]
       /\ mounted' = (outs[n] = "ok")
       /\ IF outs[n] = "ok"
          THEN pc' = "scan" /\ ret' = ret
          ELSE pc' = "cleanup" /\ ret' = "False"
  /\ mount_point' = TRUE
  /\ ops' = ops \cup {Op("umount", "mountpoint", "mount_img"),
                      Op("mount", "mountpoint", "mount_img")}
  /\ UNCHANGED <<image, temp_dir, tmpFiles, db_info_list, db_files, idx,
                 db_summaries, successful_analyses, failed_analyses, analysed,
                 last_call, scan_call, interrupted, evidence_items, main_account>>

RECURSIVE PathsOf(_)
PathsOf(infos) ==
  IF infos = <<>> THEN <<>> ELSE <<Head(infos).path>> \o PathsOf(Tail(infos))

\* find_database_files and the test of its result
\* the commands find_database_files issued and how each ended: none without
\* <root>/data, no listing of an application after a failed root listing, no
\* size query for a file that no listing showed
IssuedCalls(img, lsRoot, lsFail, statFails, infos) ==
  IF ~img.rootExists THEN ScanCall("absent", {}, {})
  ELSE IF lsRoot # "ok" THEN ScanCall(lsRoot, {}, {})
  ELSE ScanCall(lsRoot, lsFail,
                {p \in statFails : \E i \in 1..Len(infos) : infos[i].path = p})

\* whether a failed size query was a KeyboardInterrupt: the bare except
\* around "sudo stat" catches it like every other failure of the query
StatInterrupts(call) == IF call.statFails # {} THEN BOOLEAN ELSE {FALSE}

Scan ==
  /\ pc = "scan"
  /\ UNCHANGED <<mainVars, simpleVars>>
  /\ \E lsRoot \in {"ok", "fail", "timeout"} :
     \E lsFail \in SUBSET ProbePositions(image) :
     \E statFails \in {{}} \cup {{p} : p \in ProbePaths(image)} :
     \E infos \in {find_database_files(image, lsRoot, lsFail, statFails)} :
       /\ db_info_list' = infos
       /\ db_files' = PathsOf(infos)
       /\ \E call \in {IssuedCalls(image, lsRoot, lsFail, statFails, infos)} :
            /\ scan_call' = call
            /\ \E swallowed \in StatInterrupts(call) :
                 interrupted' = (interrupted \/ swallowed)
       /\ IF infos = <<>>
          THEN pc' = "cleanup" /\ ret' = "False" /\ idx' = idx
          ELSE pc' = "loop" /\ ret' = ret /\ idx' = 1
  /\ ops' = ops \cup (IF image.rootExists
                      THEN {Op("ls", "image", "find_database_files"),
                            Op("stat", "image", "find_database_files")}
                      ELSE {})
  /\ UNCHANGED <<image, temp_dir, tmpFiles, mounted, mount_point, mount_log,
                 db_summaries, successful_analyses, failed_analyses, analysed,
                 last_call, evidence_items, main_account>>

\* db_summaries[db] = tables
RECURSIVE Put(_, _, _)
Put(summaries, path, tables) ==
  IF summaries = <<>> THEN <<[path |-> path, tables |-> tables]>>
  ELSE IF Head(summaries).path = path
       THEN <<[path |-> path, tables |-> tables]>> \o Tail(summaries)
       ELSE <<Head(summaries)>> \o Put(Tail(summaries), path, tables)

\* the test that decides whether a result enters db_summaries
RunKeeps(db_result) ==
  /\ db_result # <<>>
  /\ \E i \in 1..Len(db_result) : ~IsSentinelName(db_result[i].table)

\* NextIndex of a loop that a failed analysis ends
NextIndex_BreakOnFailure(i, kept) == IF kept THEN i + 1 ELSE Len(db_files) + 1

\* the value of the loop counter after the body ran for candidate i
NextIndex(i, kept) == i + 1

\* one pass of the body of the analysis loop
AnalyzeNext ==
  /\ pc = "loop"
  /\ UNCHANGED <<mainVars, simpleVars>>
  /\ idx <= Len(db_files)
  /\ LET db == db_files[idx]
         opened == AnalyzeCopy(DbAt(image, db), AppOf(db), row_limit)
     IN  \E o \in CopyOutcomes :
       LET r == analyze_sqlite_db(db, opened, o, tmpFiles)
           kept == RunKeeps(r.summary)
       IN  /\ tmpFiles' = r.files
           /\ ops' = ops \cup r.ops
           /\ db_summaries' = IF kept THEN Put(db_summaries, db, r.summary)
                              ELSE db_summaries
           /\ successful_analyses' = successful_analyses + (IF kept THEN 1 ELSE 0)
           /\ failed_analyses' = failed_analyses + (IF kept THEN 0 ELSE 1)
           /\ analysed' = Append(analysed,
                                 [i |-> idx, path |-> db, summary |-> r.summary,
                                  copied |-> r.copied])
           /\ last_call' = [outcome |-> o, copied |-> r.copied]
           /\ scan_call' = scan_call
           /\ interrupted' = interrupted
           /\ idx' = NextIndex(idx, kept)
  /\ UNCHANGED <<pc, image, temp_dir, mounted, mount_point, mount_log,
                 db_info_list, db_files, evidence_items, main_account, ret>>

\* the end of the loop and the test of db_summaries
LoopDone ==
  /\ pc = "loop"
  /\ UNCHANGED <<mainVars, simpleVars>>
  /\ idx > Len(db_files)
  /\ IF db_summaries = <<>>
     THEN pc' = "cleanup" /\ ret' = "False"
     ELSE pc' = "report" /\ ret' = ret
  /\ UNCHANGED <<image, temp_dir, tmpFiles, mounted, mount_point, mount_log,
                 db_info_list, db_files, idx, db_summaries, successful_analyses,
                 failed_analyses, analysed, last_call, scan_call, interrupted, ops,
                 evidence_items,
                 main_account>>

\* generate_html_forensic_report; an exception of the rendering is caught
\* and the run still returns True
GenerateReport ==
  /\ pc = "report"
  /\ UNCHANGED <<mainVars, simpleVars>>
  /\ evidence_items' = Score(db_summaries).evidence_items
  /\ main_account' = Score(db_summaries).main_account
  /\ pc' = "cleanup"
  /\ ret' = "True"
  /\ UNCHANGED <<image, temp_dir, tmpFiles, mounted, mount_point, mount_log,
                 db_info_list, db_files, idx, db_summaries, successful_analyses,
                 failed_analyses, analysed, last_call, scan_call, interrupted, ops>>

\* KeyboardInterrupt inside the try block: no handler of
\* run_forensic_analysis catches it, the finally block runs
Interrupt ==
  /\ pc \in {"mount", "scan", "loop", "report"}
  /\ UNCHANGED <<mainVars, simpleVars>>
  /\ pc' = "cleanup"
  /\ ret' = "KeyboardInterrupt"
  /\ interrupted' = TRUE
  /\ UNCHANGED <<image, temp_dir, tmpFiles, mounted, mount_point, mount_log,
                 db_info_list, db_files, idx, db_summaries, successful_analyses,
                 failed_analyses, analysed, last_call, scan_call, ops, evidence_items,
                 main_account>>

\* what the mount is after "sudo umount" ended with outcome u
AfterUmount(u, m) == IF u = "ok" THEN FALSE ELSE m

\* the operations of the finally block once umount_img has returned
CleanupOps(stillMounted, mp, td) ==
  {Op("umount", "mountpoint", "umount_img")}
  \cup (IF mp THEN {Op("rmtree", IF stillMounted THEN "image" ELSE "mountpoint",
                      "run_forensic_analysis")}
        ELSE {})
  \cup (IF td THEN {Op("rmtree", "workspace", "run_forensic_analysis")} ELSE {})

\* the finally block: umount_img (no timeout, no handler), removal of the
\* mount point and of the workspace.  u: "sudo umount" exits with zero ("ok")
\* or not ("fail"), never returns ("hang"), or subprocess.run raises because
\* the command cannot be started ("raise"); the exception leaves the finally
\* block at once and replaces the value the run was returning
Cleanup ==
  /\ pc = "cleanup"
  /\ UNCHANGED <<mainVars, simpleVars>>
  /\ \E u \in {"ok", "fail", "raise", "hang"} :
       CASE u = "hang" ->
              /\ pc' = "hung"
              /\ ops' = ops \cup {Op("umount", "mountpoint", "umount_img")}
              /\ UNCHANGED <<mounted, mount_point, temp_dir, tmpFiles, ret>>
         [] u = "raise" ->
              /\ pc' = "done"
              /\ ret' = "OSError"
              /\ UNCHANGED <<ops, mounted, mount_point, temp_dir, tmpFiles>>
         [] OTHER ->
              /\ pc' = "done"
              /\ mounted' = AfterUmount(u, mounted)
              /\ ops' = ops \cup CleanupOps(AfterUmount(u, mounted), mount_point, temp_dir)
              /\ mount_point' = (mount_point /\ AfterUmount(u, mounted))
              /\ temp_dir' = FALSE
              /\ tmpFiles' = {}
              /\ ret' = ret
  /\ UNCHANGED <<image, mount_log, db_info_list, db_files, idx, db_summaries,
                 successful_analyses, failed_analyses, analysed, last_call, scan_call, interrupted,
                 evidence_items, main_account>>

Next ==
  \/ Start
  \/ MountImg
  \/ Scan
  \/ AnalyzeNext
  \/ LoopDone
  \/ GenerateReport
  \/ Interrupt
  \/ Cleanup

Spec == Init /\ [][Next]_vars

\* the runs on the images of at most two candidates
InitFair == Init /\ image \in {Img_dual, Img_noroot}

\* every step of the run is eventually taken: the process is not suspended
FairSpec == InitFair /\ [][Next]_vars /\ WF_vars(Next)

\* ------------------------------------------ the scorer on bounded summaries
ScorerApps == {A_whatsapp, A_evernote, A_instagram, A_vending, A_notes}

DbUniverse == {DB_empty, DB_corrupt, DB_kor_small, DB_plain_big, DB_plain_49,
               DB_plain_50, DB_deny_first, DB_deny_last, DB_bad_table, DB_bob,
               DB_only_bad}

\* the entries the analysis loop can put into db_summaries
ScorerEntries ==
  {e \in {[path |-> Path(a, F_msgstore), tables |-> AnalyzeCopy(d, a, row_limit)] :
            a \in ScorerApps, d \in DbUniverse} :
     RunKeeps(e.tables)}

\* db_summaries: one entry per path, MaxDbs entries at most
ScorerInputs ==
  {s \in UNION {[1..n -> ScorerEntries] : n \in 1..MaxDbs} :
     \A i, j \in 1..Len(s) : s[i].path = s[j].path => i = j}

InitScorer ==
  /\ pc = "report"
  /\ image = Img_bare
  /\ temp_dir = TRUE
  /\ tmpFiles = {}
  /\ mounted = TRUE
  /\ mount_point = TRUE
  /\ mount_log = <<MountAttempt(mount_options[1], "ok")>>
  /\ db_info_list = <<>>
  /\ db_files = <<>>
  /\ idx = 0
  /\ db_summaries \in ScorerInputs
  /\ successful_analyses = 0
  /\ failed_analyses = 0
  /\ analysed = <<>>
  /\ last_call = NoCall
  /\ scan_call = NoScan
  /\ interrupted = FALSE
  /\ ops = {}
  /\ evidence_items = <<>>
  /\ main_account = NoAccount
  /\ ret = "none"
  /\ MainAtForensic
  /\ SimpleIdle

NextScorer == GenerateReport

SpecScorer == InitScorer /\ [][NextScorer]_vars

\* --------------------------------------- the analyzer on bounded databases
R_twice == <<Cell(<<Email(E_bob), Other, Email(E_bob), Hangul>>), NoneCell,
             Cell(<<Hangul, Email(E_alice)>>)>>

DB_repeat == Db(FALSE, <<Table(T_chat_list, 11, <<R_twice, R_kor>>, FALSE),
                         Table(T_props, 10, <<R_bob>>, FALSE),
                         Table(T_Notes, 9, <<R_plain, R_twice>>, FALSE)>>)
DB_bad_first == Db(FALSE, <<Table(T_props, 4, <<R_kor>>, TRUE),
                            Table(T_metadata, 1, <<R_plain>>, FALSE),
                            Table(T_messages, 12, <<R_alice>>, FALSE)>>)

\* tables that match and tables that do not match, in turn
DB_interleaved == Db(FALSE, <<Table(T_props, 2, <<R_plain>>, FALSE),
                              Table(T_Notes, 3, <<R_plain>>, FALSE),
                              Table(T_metadata, 1, <<R_plain>>, FALSE),
                              Table(T_chat_list, 4, <<R_plain>>, FALSE),
                              Table(T_messages, 5, <<R_plain>>, TRUE)>>)

AnalyzerApps == {A_whatsapp, A_evernote, A_instagram, A_dual}

AnalyzerDbs == DbUniverse \cup {DB_repeat, DB_bad_first, DB_interleaved}

\* an image with one application folder that holds one database
OneDbImage(app, db) ==
  Image(TRUE, DotLines \o <<DirLine("d", app, <<FileLine("-", F_msgstore, 1, db)>>)>>)

\* the run at the head of the analysis loop, after the image was mounted
\* at the first attempt and scanned without a failed command
InitAnalyzer ==
  /\ pc = "loop"
  /\ image \in {OneDbImage(a, d) : a \in AnalyzerApps, d \in AnalyzerDbs}
  /\ temp_dir = TRUE
  /\ tmpFiles = {}
  /\ mounted = TRUE
  /\ mount_point = TRUE
  /\ mount_log = <<MountAttempt(mount_options[1], "ok")>>
  /\ db_info_list = find_database_files(image, "ok", {}, {})
  /\ db_files = PathsOf(db_info_list)
  /\ idx = 1
  /\ db_summaries = <<>>
  /\ successful_analyses = 0
  /\ failed_analyses = 0
  /\ analysed = <<>>
  /\ last_call = NoCall
  /\ scan_call = ScanCall("ok", {}, {})
  /\ interrupted = FALSE
  /\ ops = {Op("umount", "mountpoint", "mount_img"),
            Op("mount", "mountpoint", "mount_img"),
            Op("ls", "image", "find_database_files"),
            Op("stat", "image", "find_database_files")}
  /\ evidence_items = <<>>
  /\ main_account = NoAccount
  /\ ret = "none"
  /\ MainAtForensic
  /\ SimpleIdle

NextAnalyzer == AnalyzeNext

SpecAnalyzer == InitAnalyzer /\ [][NextAnalyzer]_vars

\* ------------------------------------------------------------------- main
\* the variables of run_forensic_analysis
runVars == <<pc, image, temp_dir, tmpFiles, mounted, mount_point, mount_log,
             db_info_list, db_files, idx, db_summaries, successful_analyses,
             failed_analyses, analysed, last_call, scan_call, interrupted, ops,
             evidence_items, main_account, ret>>

\* what one call of finalize_log writes into metadata
FinalizeArgs(success, forensic_success) ==
  [success |-> success, forensic_success |-> forensic_success,
   overall_success |-> success /\ forensic_success]

\* the finalize_log calls of the "except Exception" handlers around a call
\* site, innermost first: inside the try block of main, and inside the try
\* block of the sudo check as well
InMain == <<FinalizeArgs(FALSE, FALSE)>>

InSudoCheck == <<FinalizeArgs(TRUE, FALSE), FinalizeArgs(FALSE, FALSE)>>

\* finalize_log(args) at a call site, after which main ends by exit.
\* finalize_log reads metadata['timezone_info'] and raises KeyError without
\* it; the exception runs the handlers around the site, each of which calls
\* finalize_log again, and the last one lets it out of main
FinalizeAt(args, handlers, exit) ==
  /\ finalize_calls' = IF timezone_info THEN Append(finalize_calls, args)
                       ELSE Append(finalize_calls, args) \o handlers
  /\ main_exit' = IF timezone_info THEN exit ELSE "raised"
  /\ main_pc' = "exited"

\* no check of main has run
ChecksPending ==
  [prerequisites |-> "pending", decryption |-> "pending", decrypted_file |-> "pending",
   linux |-> "pending", sudo |-> "pending"]

Outcome(ok) == IF ok THEN "passed" ELSE "failed"

\* SudoUsable that lets every outcome of the check pass
SudoUsable_Always(outcome) == TRUE

\* the outcomes of the sudo check after which main goes on: "sudo -n true"
\* exited with zero, or the user agreed and "sudo echo" exited with zero
SudoUsable(outcome) == outcome \in {"passwordless", "confirmed"}

\* the outcomes of the sudo check and the handlers around the finalize_log
\* call each failing one leads to
SudoOutcomes ==
  {"passwordless", "confirmed", "which_failed", "test_failed", "declined",
   "input_interrupted", "timeout", "error"}

SudoHandlers(outcome) ==
  IF outcome \in {"test_failed", "declined", "input_interrupted"}
  THEN InSudoCheck ELSE InMain

\* collect_system_info: the block that stores timezone_info catches its own
\* exception and leaves metadata without the key
CollectSystemInfo ==
  /\ main_pc = "system_info"
  /\ stage_log' = Append(stage_log, "system_info")
  /\ timezone_info' \in BOOLEAN
  /\ main_pc' = "prerequisites"
  /\ UNCHANGED <<checks, finalize_calls, main_exit>>
  /\ UNCHANGED <<runVars, simpleVars>>

CheckPrerequisites ==
  /\ main_pc = "prerequisites"
  /\ stage_log' = Append(stage_log, "prerequisites")
  /\ \E ok \in BOOLEAN :
       /\ checks' = [checks EXCEPT !.prerequisites = Outcome(ok)]
       /\ IF ok
          THEN main_pc' = "decryption" /\ UNCHANGED <<finalize_calls, main_exit>>
          ELSE FinalizeAt(FinalizeArgs(FALSE, FALSE), InMain, "exit1")
  /\ UNCHANGED timezone_info
  /\ UNCHANGED <<runVars, simpleVars>>

RunDecryption ==
  /\ main_pc = "decryption"
  /\ stage_log' = Append(stage_log, "decryption")
  /\ \E ok \in BOOLEAN :
       /\ checks' = [checks EXCEPT !.decryption = Outcome(ok)]
       /\ IF ok
          THEN main_pc' = "file_check" /\ UNCHANGED <<finalize_calls, main_exit>>
          ELSE FinalizeAt(FinalizeArgs(FALSE, FALSE), InMain, "exit1")
  /\ UNCHANGED timezone_info
  /\ UNCHANGED <<runVars, simpleVars>>

\* os.path.exists('userdata-decrypted.img')
FileCheck ==
  /\ main_pc = "file_check"
  /\ \E ok \in BOOLEAN :
       /\ checks' = [checks EXCEPT !.decrypted_file = Outcome(ok)]
       /\ IF ok
          THEN main_pc' = "platform" /\ UNCHANGED <<finalize_calls, main_exit>>
          ELSE FinalizeAt(FinalizeArgs(TRUE, FALSE), InMain, "exit1")
  /\ UNCHANGED <<stage_log, timezone_info>>
  /\ UNCHANGED <<runVars, simpleVars>>

\* platform.system() = 'Linux'
PlatformCheck ==
  /\ main_pc = "platform"
  /\ \E ok \in BOOLEAN :
       /\ checks' = [checks EXCEPT !.linux = Outcome(ok)]
       /\ IF ok
          THEN main_pc' = "sudo" /\ UNCHANGED <<finalize_calls, main_exit>>
          ELSE FinalizeAt(FinalizeArgs(TRUE, FALSE), InMain, "return")
  /\ UNCHANGED <<stage_log, timezone_info>>
  /\ UNCHANGED <<runVars, simpleVars>>

\* the sudo check, and the call of run_forensic_analysis when it passes
SudoCheck ==
  /\ main_pc = "sudo"
  /\ \E outcome \in SudoOutcomes :
       /\ checks' = [checks EXCEPT !.sudo = outcome]
       /\ IF SudoUsable(outcome)
          THEN /\ main_pc' = "forensic"
               /\ stage_log' = Append(stage_log, "forensic")
               /\ UNCHANGED <<finalize_calls, main_exit>>
          ELSE /\ FinalizeAt(FinalizeArgs(TRUE, FALSE), SudoHandlers(outcome), "return")
               /\ UNCHANGED stage_log
  /\ UNCHANGED timezone_info
  /\ UNCHANGED <<runVars, simpleVars>>

\* one step of run_forensic_analysis
ForensicStep ==
  /\ main_pc = "forensic"
  /\ Next

\* run_forensic_analysis has returned True or False, or has let a
\* KeyboardInterrupt or an exception of its finally block out
ForensicReturn ==
  /\ main_pc = "forensic"
  /\ pc \in {"done", "rejected"}
  /\ IF ret \in {"True", "False"}
     THEN FinalizeAt(FinalizeArgs(TRUE, ret = "True"), InMain, "return")
     ELSE FinalizeAt(FinalizeArgs(FALSE, FALSE), <<>>, "exit1")
  /\ UNCHANGED <<stage_log, checks, timezone_info>>
  /\ UNCHANGED <<runVars, simpleVars>>

\* a KeyboardInterrupt or an unexpected exception in main outside
\* run_forensic_analysis: the handler calls finalize_log and exits
MainRaise ==
  /\ main_pc \in {"system_info", "prerequisites", "decryption", "file_check",
                  "platform", "sudo"}
  /\ FinalizeAt(FinalizeArgs(FALSE, FALSE), <<>>, "exit1")
  /\ UNCHANGED <<stage_log, checks, timezone_info>>
  /\ UNCHANGED <<runVars, simpleVars>>

InitMain ==
  /\ pc = "start"
  /\ image \in {Img_dual, Img_noroot}
  /\ temp_dir = FALSE
  /\ tmpFiles = {}
  /\ mounted = FALSE
  /\ mount_point \in BOOLEAN
  /\ mount_log = <<>>
  /\ db_info_list = <<>>
  /\ db_files = <<>>
  /\ idx = 0
  /\ db_summaries = <<>>
  /\ successful_analyses = 0
  /\ failed_analyses = 0
  /\ analysed = <<>>
  /\ last_call = NoCall
  /\ scan_call = NoScan
  /\ interrupted = FALSE
  /\ ops = {}
  /\ evidence_items = <<>>
  /\ main_account = NoAccount
  /\ ret = "none"
  /\ main_pc = "system_info"
  /\ stage_log = <<>>
  /\ checks = ChecksPending
  /\ timezone_info = FALSE
  /\ finalize_calls = <<>>
  /\ main_exit = "none"
  /\ SimpleIdle

NextMain ==
  \/ CollectSystemInfo
  \/ CheckPrerequisites
  \/ RunDecryption
  \/ FileCheck
  \/ PlatformCheck
  \/ SudoCheck
  \/ ForensicStep
  \/ ForensicReturn
  \/ MainRaise

SpecMain == InitMain /\ [][NextMain]_vars

\* ------------------------------------------------------------- properties
\* generate_html_forensic_report has computed evidence_items
Scored == ret = "True"

\* the entries of a summary that are tables the introspector analysed
AnalyzedTables(tables) ==
  LET done(t) == ~t.error IN SelectSeq(tables, done)

IsEvidence(path) ==
  \E j \in 1..Len(evidence_items) : evidence_items[j].db_path = path

HasContent(tables) ==
  \E i \in 1..Len(tables) : tables[i].has_korean \/ tables[i].has_email

\* C1: a database handed to the scorer becomes an evidence item if and only
\* if one of its analysed tables has has_korean or has_email, or its
\* application's priority is <= 2 and the row counts of its analysed tables
\* add up to 50 or more.
C1_InclusionRule ==
  Scored =>
    \A k \in 1..Len(db_summaries) :
      LET e == db_summaries[k]
          tabs == AnalyzedTables(e.tables)
          priority == ScorerCategory(AppOf(e.path)).priority
      IN  IsEvidence(e.path) <=>
            \/ HasContent(tabs)
            \/ priority <= 2 /\ RowTotal(tabs) >= 50

\* a priority-1 database with Hangul text and fewer than 50 rows is evidence,
\* and a priority-4 database without content and with 1000 rows is not
C1_Witness ==
  /\ Scored
  /\ \E j \in 1..Len(evidence_items) :
       /\ evidence_items[j].priority = 1
       /\ evidence_items[j].total_rows < 50
       /\ evidence_items[j].korean_data # <<>>
  /\ \E k \in 1..Len(db_summaries) :
       /\ ScorerCategory(AppOf(db_summaries[k].path)).priority = 4
       /\ ~HasContent(db_summaries[k].tables)
       /\ RowTotal(db_summaries[k].tables) >= 1000
       /\ ~IsEvidence(db_summaries[k].path)

\* C2: evidence_items is non-decreasing in priority and, among items of equal
\* priority, non-increasing in total_rows.
C2_EvidenceOrder ==
  Scored =>
    \A i, j \in 1..Len(evidence_items) :
      i < j =>
        /\ evidence_items[i].priority <= evidence_items[j].priority
        /\ evidence_items[i].priority = evidence_items[j].priority
             => evidence_items[i].total_rows >= evidence_items[j].total_rows

\* two items of equal priority that the sort has exchanged
C2_Witness ==
  /\ Scored
  /\ \E i, j \in 1..Len(evidence_items) :
       /\ i < j
       /\ evidence_items[i].priority = evidence_items[j].priority
       /\ evidence_items[i].total_rows > evidence_items[j].total_rows
       /\ evidence_items[i].id > evidence_items[j].id

\* every address of the summaries in encounter order: databases, tables,
\* rows, cells, matches inside a cell
AddressesOfTable(t) ==
  LET cells == CellsOf(t.rows)
  IN  Flatten([i \in 1..Len(cells) |-> extract_emails(CellStr(cells[i]))])

AddressesOfTables(tables) ==
  Flatten([i \in 1..Len(tables) |-> AddressesOfTable(tables[i])])

AllAddresses(summaries) ==
  Flatten([k \in 1..Len(summaries) |->
             AddressesOfTables(AnalyzedTables(summaries[k].tables))])

FirstAllowed(addrs) ==
  LET allowed(a) == ~Denylisted(a)
      good == SelectSeq(addrs, allowed)
  IN  IF good = <<>> THEN NoAccount ELSE good[1]

\* C4: main_account is the first address in encounter order that contains
\* none of the denylist substrings, also when a denylisted address stands
\* before it in the same cell.
C4_FirstAllowedAddress ==
  Scored => main_account = FirstAllowed(AllAddresses(db_summaries))

\* C3: find_database_files never returns the same path twice, also when one
\* folder name contains more than one catalog identifier.
C3_NoDuplicatePaths ==
  \A i, j \in 1..Len(db_files) : db_files[i] = db_files[j] => i = j

\* the latest record of the analysis loop
LastAnalysed == analysed[Len(analysed)]

CopyErrorSummary == <<Sentinel(T_COPY_ERROR)>>

StepFailed(step) == step \notin {"ok", "skipped"}

C6_NoTemporaryCopyLeft ==
  (analysed # <<>> /\ pc = "loop") => Basename(LastAnalysed.path) \notin tmpFiles

\* C7: nothing but listing, stat and the read side of cp is ever applied to a
\* path under the mounted image; chmod, chown and deletions stay inside the
\* workspace.
C7_ImageOnlyRead ==
  \A o \in ops : o.on = "image" => o.op \in {"ls", "stat", "cp_read"}

\* C8: once the workspace exists, every way out of run_forensic_analysis has
\* issued the unmount and removed the workspace.
C8_CleanupOnEveryExit ==
  /\ pc \in {"mount", "scan", "loop", "report", "cleanup"} => temp_dir
  /\ pc = "done" =>
       /\ Op("umount", "mountpoint", "umount_img") \in ops
       /\ ~temp_dir
       /\ tmpFiles = {}

\* C9: the run terminates even when one external operation never returns.
C9_RunTerminates == <>(pc \in {"done", "rejected"})

\* the loop over db_files has run to its end
LoopFinished ==
  \/ pc = "loop" /\ idx > Len(db_files)
  \/ pc = "report"
  \/ ret = "True"
  \/ ret = "False" /\ db_files # <<>>

\* what one database can yield, whatever happened to the others
OwnSummaries(path) ==
  {CopyErrorSummary, <<Sentinel(T_DB_ERROR)>>,
   AnalyzeCopy(DbAt(image, path), AppOf(path), row_limit)}

\* the records of the calls for one path whose result was kept
KeptCalls(path) ==
  {k \in 1..Len(analysed) : analysed[k].path = path /\ RunKeeps(analysed[k].summary)}

Latest(S) == CHOOSE k \in S : \A m \in S : m <= k

\* C10: the loop analyses every candidate of the scanner exactly once, in
\* order, whatever the earlier analyses ended with; the summary of a candidate
\* is one its own database can yield, and db_summaries holds for a path the
\* summary of its own latest kept analysis.
C10_EveryCandidateOnce ==
  /\ Len(analysed) <= Len(db_files)
  /\ \A k \in 1..Len(analysed) :
       /\ analysed[k].i = k
       /\ analysed[k].path = db_files[k]
       /\ analysed[k].summary \in OwnSummaries(analysed[k].path)
       /\ RunKeeps(analysed[k].summary) =>
            \E e \in 1..Len(db_summaries) : db_summaries[e].path = analysed[k].path
  /\ \A e \in 1..Len(db_summaries) :
       /\ KeptCalls(db_summaries[e].path) # {}
       /\ db_summaries[e].tables =
            analysed[Latest(KeptCalls(db_summaries[e].path))].summary
  /\ LoopFinished => Len(analysed) = Len(db_files)
  /\ successful_analyses + failed_analyses = Len(analysed)

\* the loop has finished; the first candidate ended in COPY_ERROR, the second
\* in DB_ERROR, and a later one is in db_summaries
C10_Witness ==
  /\ LoopFinished
  /\ Len(analysed) >= 3
  /\ analysed[1].summary = CopyErrorSummary
  /\ analysed[2].summary = <<Sentinel(T_DB_ERROR)>>
  /\ RunKeeps(analysed[3].summary)
  /\ \E e \in 1..Len(db_summaries) :
       /\ db_summaries[e].path = analysed[3].path
       /\ db_summaries[e].tables = analysed[3].summary

\* the summaries of a database that could not be copied or not be opened
DbErrorSummary == <<Sentinel(T_DB_ERROR)>>

\* the record k of the loop holds the result of the table loop
TablesListed(k) ==
  analysed[k].summary \notin {CopyErrorSummary, DbErrorSummary}

\* the database with no table whose queries raise
Healed(db) ==
  [db EXCEPT !.tables = [i \in 1..Len(db.tables) |->
                           [db.tables[i] EXCEPT !.bad = FALSE]]]

\* the entry the claim describes for a table whose query raised
TableSentinelEntry(name) ==
  [table |-> name, columns |-> <<>>, rows |-> <<ErrorRow>>, row_count |-> 0,
   is_important |-> FALSE, has_korean |-> FALSE, has_email |-> FALSE,
   korean_count |-> 0, email_count |-> 0, error |-> TRUE]

\* C11: a table whose schema, count or sample query raises has exactly one
\* entry, a sentinel with row_count 0, no columns, an error text for rows and
\* all flags false; every other table has, at its own position, the entry it
\* has when no query raises.
C11_TableSentinel ==
  \A k \in 1..Len(analysed) :
    TablesListed(k) =>
      LET db == DbAt(image, analysed[k].path)
          app == AppOf(analysed[k].path)
          order == TableOrder(db.tables, get_important_tables_by_app(app))
          clean == TableLoop(Healed(db), app, row_limit)
          s == analysed[k].summary
      IN  /\ Len(s) = Len(db.tables)
          /\ \A i \in 1..Len(s) :
               IF order[i].bad THEN s[i] = TableSentinelEntry(order[i].name)
               ELSE s[i] = clean[i] /\ ~s[i].error

\* a summary of three entries: a sentinel for the table whose query raised,
\* a normal entry before it and a normal entry with an address after it
C11_Witness ==
  /\ analysed # <<>>
  /\ TablesListed(Len(analysed))
  /\ Len(LastAnalysed.summary) = 3
  /\ ~LastAnalysed.summary[1].error /\ LastAnalysed.summary[1].row_count > 0
  /\ LastAnalysed.summary[2].error
  /\ ~LastAnalysed.summary[3].error /\ LastAnalysed.summary[3].row_count > 0

\* the DB_ERROR entry analyze_sqlite_db appends in its handler
DbErrorEntry ==
  [table |-> T_DB_ERROR, columns |-> <<>>, rows |-> <<ErrorRow>>, row_count |-> 0,
   is_important |-> FALSE, has_korean |-> FALSE, has_email |-> FALSE,
   korean_count |-> 0, email_count |-> 0, error |-> TRUE]

\* C12: when the copy cannot be opened or its tables cannot be listed, the
\* summary is the DB_ERROR entry alone; a summary that holds DB_ERROR holds
\* nothing else; the loop goes on with the next candidate and the run does
\* not end with an exception of the analysis.
C12_DbErrorSentinel ==
  /\ \A k \in 1..Len(analysed) :
       LET s == analysed[k].summary IN
       /\ (DbAt(image, analysed[k].path).corrupt /\ s # CopyErrorSummary)
            => s = <<DbErrorEntry>>
       /\ (\E i \in 1..Len(s) : s[i].table = T_DB_ERROR) => Len(s) = 1
  /\ (/\ analysed # <<>>
      /\ last_call.copied.ok
      /\ last_call.outcome.chmod # "ok"
      /\ last_call.outcome.chown # "ok"
      /\ ~last_call.outcome.readable)
       => LastAnalysed.summary = <<DbErrorEntry>>
  /\ pc = "loop" => idx = Len(analysed) + 1
  /\ LoopFinished => Len(analysed) = Len(db_files)
  /\ (analysed # <<>> /\ pc \in {"loop", "report"}) => ret = "none"

\* the copy of the first candidate could not be opened and has the DB_ERROR
\* summary; the loop went on to the second candidate, whose tables cannot be
\* listed and which has the DB_ERROR summary too
C12_Witness ==
  /\ Len(analysed) = 2
  /\ analysed[1].summary = <<DbErrorEntry>>
  /\ ~DbAt(image, analysed[1].path).corrupt
  /\ DbAt(image, analysed[2].path).corrupt
  /\ analysed[2].summary = <<DbErrorEntry>>
  /\ successful_analyses = 0
  /\ failed_analyses = 2

\* t is an element of the sequence seq
InSeq(t, seq) == \E m \in 1..Len(seq) : seq[m] = t

\* the summary the scorer was given for the database of an evidence item
SummaryOf(item) ==
  LET k == CHOOSE k \in 1..Len(db_summaries) : db_summaries[k].path = item.db_path
  IN  db_summaries[k].tables

\* what makes a table important for the partition
MarkedImportant(t) == t.is_important \/ t.has_korean \/ t.has_email

\* C13 as stated: every analysed table of the database of an evidence item,
\* a table with zero rows included, is in exactly one of important_tables and
\* other_tables, in important_tables exactly if its name matches the
\* important patterns or it has has_korean or has_email.
C13_EveryTablePartitioned ==
  Scored =>
    \A j \in 1..Len(evidence_items) :
      LET item == evidence_items[j]
          tabs == AnalyzedTables(SummaryOf(item))
      IN  \A i \in 1..Len(tabs) :
            /\ InSeq(tabs[i], item.important_tables) <=> MarkedImportant(tabs[i])
            /\ InSeq(tabs[i], item.other_tables) <=> ~MarkedImportant(tabs[i])

\* C13 as amended: every analysed table with row_count > 0 is in exactly one
\* of the two lists, in important_tables exactly if its name matches the
\* important patterns or it has has_korean or has_email; a table with
\* row_count 0 and a sentinel entry are in neither list, and the lists hold
\* nothing but tables of the summary.
C13_TablesWithRowsPartitioned ==
  Scored =>
    \A j \in 1..Len(evidence_items) :
      LET item == evidence_items[j]
          all == SummaryOf(item)
      IN  /\ \A i \in 1..Len(all) :
               IF ~all[i].error /\ all[i].row_count > 0
               THEN /\ InSeq(all[i], item.important_tables) <=> MarkedImportant(all[i])
                    /\ InSeq(all[i], item.other_tables) <=> ~MarkedImportant(all[i])
               ELSE /\ ~InSeq(all[i], item.important_tables)
                    /\ ~InSeq(all[i], item.other_tables)
          /\ \A m \in 1..Len(item.important_tables) : InSeq(item.important_tables[m], all)
          /\ \A m \in 1..Len(item.other_tables) : InSeq(item.other_tables[m], all)
          /\ Len(item.important_tables) + Len(item.other_tables)
               = Len(TablesWithData(all))

\* one item has a table in each list, the important one by its name alone;
\* the database of an item has an analysed table with no rows, in neither list
C13_Witness ==
  /\ Scored
  /\ \E j \in 1..Len(evidence_items) :
       /\ evidence_items[j].other_tables # <<>>
       /\ \E m \in 1..Len(evidence_items[j].important_tables) :
            LET t == evidence_items[j].important_tables[m]
            IN  t.is_important /\ ~t.has_korean /\ ~t.has_email
  /\ \E j \in 1..Len(evidence_items) :
       \E i \in 1..Len(SummaryOf(evidence_items[j])) :
         LET t == SummaryOf(evidence_items[j])[i]
         IN  /\ ~t.error /\ t.row_count = 0
             /\ ~InSeq(t, evidence_items[j].important_tables)
             /\ ~InSeq(t, evidence_items[j].other_tables)

\* every token of every cell of the rows, a null cell giving none
TokensOf(rows) ==
  LET cells == CellsOf(rows)
  IN  Flatten([i \in 1..Len(cells) |-> IF cells[i].isNone THEN <<>> ELSE cells[i].text])

HangulTotal(rows) == Len(SelectSeq(TokensOf(rows), IsHangul))

EmailTotal(rows) == Len(SelectSeq(TokensOf(rows), IsEmail))

\* C14: for the sampled rows of every analysed table, korean_count is the
\* number of Hangul syllables and email_count the number of e-mail matches
\* over all cells, a repeated address counted each time and a null cell
\* counting nothing; has_korean is korean_count > 0 and has_email is
\* email_count > 0.
C14_ClassifierCounts ==
  \A k \in 1..Len(analysed) :
    TablesListed(k) =>
      \A i \in 1..Len(analysed[k].summary) :
        LET t == analysed[k].summary[i] IN
        ~t.error =>
          /\ t.korean_count = HangulTotal(t.rows)
          /\ t.email_count = EmailTotal(t.rows)
          /\ t.has_korean <=> t.korean_count > 0
          /\ t.has_email <=> t.email_count > 0

\* a table whose sample holds a null cell, one address twice in one cell and
\* Hangul syllables in several cells
C14_Witness ==
  \E k \in 1..Len(analysed) :
    \E i \in 1..Len(analysed[k].summary) :
      LET t == analysed[k].summary[i]
          toks == TokensOf(t.rows)
          addrs == {toks[n].addr : n \in {m \in 1..Len(toks) : IsEmail(toks[m])}}
      IN  /\ ~t.error
          /\ InSeq(NoneCell, CellsOf(t.rows))
          /\ t.email_count = 3
          /\ Cardinality(addrs) = 2
          /\ t.korean_count = 5
          /\ t.has_korean /\ t.has_email

\* the tables of the database of record k in the order they were analysed
TablesOfRecord(k) ==
  TableOrder(DbAt(image, analysed[k].path).tables,
             get_important_tables_by_app(AppOf(analysed[k].path)))

\* C15: the entry of an analysed table of n rows has row_count n, whatever
\* row_limit is, and a sample of min(n, row_limit) rows, the first rows of
\* the table; so row_count is never below the size of the sample.
C15_RowCountAndSample ==
  \A k \in 1..Len(analysed) :
    TablesListed(k) =>
      \A i \in 1..Len(analysed[k].summary) :
        LET e == analysed[k].summary[i]
            t == TablesOfRecord(k)[i]
        IN  ~e.error =>
              /\ e.table = t.name
              /\ e.row_count = t.nrows
              /\ Len(e.rows) = (IF t.nrows <= row_limit THEN t.nrows ELSE row_limit)
              /\ \A r \in 1..Len(e.rows) : e.rows[r] = RowAt(t, r)
              /\ e.row_count >= Len(e.rows)

\* one summary with a table of row_limit - 1 rows sampled whole, a table of
\* row_limit rows sampled whole and a table of row_limit + 1 rows truncated
C15_Witness ==
  \E k \in 1..Len(analysed) :
    LET s == analysed[k].summary IN
    /\ TablesListed(k)
    /\ \E i \in 1..Len(s) :
         s[i].row_count = row_limit - 1 /\ Len(s[i].rows) = row_limit - 1
    /\ \E i \in 1..Len(s) :
         s[i].row_count = row_limit /\ Len(s[i].rows) = row_limit
    /\ \E i \in 1..Len(s) :
         s[i].row_count = row_limit + 1 /\ Len(s[i].rows) = row_limit

\* the size of the file of a candidate in the image
SizeInImage(path) == FindLine(FindLine(image.lines, path.app).files, path.file).size

\* C16: the candidates are ordered by priority ascending and, at equal
\* priority, by size descending, a candidate whose size query failed having
\* size 0; the paths returned are the candidates in this order.
C16_CandidateOrder ==
  /\ \A i, j \in 1..Len(db_info_list) :
       i < j =>
         /\ db_info_list[i].priority <= db_info_list[j].priority
         /\ db_info_list[i].priority = db_info_list[j].priority
              => db_info_list[i].size_bytes >= db_info_list[j].size_bytes
  /\ \A i \in 1..Len(db_info_list) :
       db_info_list[i].size_bytes \in {0, SizeInImage(db_info_list[i].path)}
  /\ Len(db_files) = Len(db_info_list)
  /\ \A i \in 1..Len(db_files) : db_files[i] = db_info_list[i].path

\* the size query of the largest file failed: it stands as size 0 behind a
\* smaller file of the same priority, and before a file of the next priority
C16_Witness ==
  /\ Len(db_info_list) = 3
  /\ db_info_list[1].priority = db_info_list[2].priority
  /\ db_info_list[1].size_bytes > 0
  /\ db_info_list[2].size_bytes = 0
  /\ SizeInImage(db_info_list[2].path) > db_info_list[1].size_bytes
  /\ db_info_list[2].priority < db_info_list[3].priority
  /\ db_info_list[3].size_bytes > 0

\* the records of the loop whose database was opened and has no table
ZeroTableRecords ==
  {k \in 1..Len(analysed) :
     /\ analysed[k].summary = <<>>
     /\ DbAt(image, analysed[k].path) = DB_empty}

\* the records of the loop that ended in a COPY_ERROR or DB_ERROR summary
ErrorRecords ==
  {k \in 1..Len(analysed) : analysed[k].summary \in {CopyErrorSummary, DbErrorSummary}}

\* C17: a database with no table has the empty summary and no evidence item,
\* and it is not an error: failed_analyses counts the analyses that ended in
\* an error only, and a run all of whose analyses ended without an error does
\* not return False.
C17_ZeroTablesNotAnError ==
  /\ \A k \in ZeroTableRecords : ~IsEvidence(analysed[k].path)
  /\ failed_analyses = Cardinality(ErrorRecords)
  /\ (ret = "False" /\ analysed # <<>>) => ErrorRecords # {}


\* the *.db files in the databases folder of one application folder
DbFilesOfFolder(line) ==
  {Path(line.name, line.files[f].name) :
     f \in {f \in 1..Len(line.files) :
              /\ line.files[f].kind # "d"
              /\ EndsWith(line.files[f].name, F_ext)}}

\* the *.db files of every application folder under <root>/data
AllDbFiles(img) ==
  UNION {DbFilesOfFolder(img.lines[a]) :
           a \in {a \in 1..Len(img.lines) :
                    /\ img.lines[a].kind = "d"
                    /\ img.lines[a].name \notin {A_dot, A_dotdot}}}

\* the scan is over and none of its listings or size queries failed
ScanComplete ==
  /\ pc \in {"loop", "report"}
  /\ db_info_list = find_database_files(image, "ok", {}, {})

\* C18: after a scan none of whose commands failed, every *.db file in the
\* databases folder of any application folder under the root data directory
\* is in the candidate list, whatever rule of the catalog the application
\* matches, if any.
C18_EveryDbIsCandidate ==
  ScanComplete =>
    \A p \in AllDbFiles(image) : \E i \in 1..Len(db_files) : db_files[i] = p


\* the *.db files the listing of the application at position k of
\* priority_apps shows
ProbedPaths(img, priority_apps, k) ==
  DbFilesOfFolder(FindLine(img.lines, priority_apps[k].app_name))

\* the paths in a list of candidates
PathSetOf(paths) == {paths[i] : i \in 1..Len(paths)}

ScanListing == Op("ls", "image", "find_database_files")

\* C19: find_database_files never raises.  Without the root data directory
\* it returns the empty list and no listing command is issued; with it, a
\* failed or timed-out root listing leaves no candidate, and an application
\* whose listing failed contributes nothing while the candidates of every
\* other probed application are returned.  The run goes on to the loop with
\* the candidates, or returns False when there is none.
C19_ScanNeverRaises ==
  /\ ~image.rootExists =>
       /\ db_files = <<>>
       /\ ScanListing \notin ops
       /\ scan_call \in {NoScan, ScanCall("absent", {}, {})}
  /\ scan_call.lsRoot = "absent" => ~image.rootExists
  /\ scan_call.lsRoot \in {"fail", "timeout"} => db_files = <<>>
  /\ scan_call.lsRoot = "ok" =>
       \A apps \in {PriorityApps(AppFolders(image.lines))} :
         PathSetOf(db_files) =
           UNION {ProbedPaths(image, apps, k) : k \in (1..Len(apps)) \ scan_call.lsFail}
  /\ scan_call # NoScan =>
       /\ pc \notin {"start", "mount", "scan"}
       /\ Len(db_info_list) = Len(db_files)
       /\ db_files = <<>> => (pc = "cleanup" => ret = "False")
       /\ pc \in {"loop", "report"} => db_files # <<>> /\ ret = "none"

\* the listing of com.whatsapp failed and com.instagram.android, probed
\* after it, still gave its candidate, which the loop is about to analyse
C19_Witness ==
  /\ image = Img_plain
  /\ scan_call.lsRoot = "ok"
  /\ scan_call.lsFail = {1}
  /\ db_files = <<Path(A_instagram, F_msgstore)>>
  /\ pc = "loop"
  /\ idx = 1


\* the candidates the scanner recorded for one application folder
EntriesOfApp(app_name) ==
  {i \in 1..Len(db_info_list) : db_info_list[i].app_name = app_name}

\* C20: category resolution is first-match-wins and each application is
\* processed once: the scanner lists the databases folder of an application
\* once, so that no file of it is recorded twice, every candidate of the
\* application carries the category and priority of the first rule of the
\* catalog that matches its name, and the evidence item the scorer builds
\* for a candidate carries the same category and priority.
C20_FirstMatchWins ==
  /\ \A i \in 1..Len(db_info_list) :
       /\ \A j \in EntriesOfApp(db_info_list[i].app_name) :
            db_info_list[j].db_name = db_info_list[i].db_name => j = i
       /\ db_info_list[i].category = ScorerCategory(db_info_list[i].app_name).category
       /\ db_info_list[i].priority = ScorerCategory(db_info_list[i].app_name).priority
  /\ \A e \in 1..Len(evidence_items) :
       \A i \in EntriesOfApp(evidence_items[e].app_name) :
         /\ evidence_items[e].category = db_info_list[i].category
         /\ evidence_items[e].priority = db_info_list[i].priority


\* the tables of the database of record k as sqlite_master enumerates them
Enumerated(k) == DbAt(image, analysed[k].path).tables

\* the place of a table name in an enumeration
NamePos(name, tables) == CHOOSE i \in 1..Len(tables) : tables[i].name = name

\* the name contains one of the patterns, letter case set aside
NameImportant(name, patterns) ==
  \E p \in 1..Len(patterns) : IsSubstr(Lower(patterns[p]), Lower(name))

\* C21: the tables analyze_sqlite_db lists are a permutation of the tables
\* enumerated from the database: no table is dropped or repeated, every
\* table whose name contains one of the application's important patterns,
\* letter case set aside, comes before every table that does not, inside
\* each group the enumeration order is kept, and without a pattern set the
\* enumeration order is unchanged.
C21_TableOrderIsReordering ==
  \A k \in 1..Len(analysed) :
    TablesListed(k) =>
      LET s == analysed[k].summary
          all == Enumerated(k)
          pats == get_important_tables_by_app(AppOf(analysed[k].path))
          imp(i) == NameImportant(s[i].table, pats)
      IN  /\ Len(s) = Len(all)
          /\ \A t \in 1..Len(all) :
               Cardinality({i \in 1..Len(s) : s[i].table = all[t].name}) = 1
          /\ pats = <<>> => \A i \in 1..Len(s) : s[i].table = all[i].name
          /\ \A i, j \in 1..Len(s) :
               i < j =>
                 /\ imp(j) => imp(i)
                 /\ (imp(i) <=> imp(j)) =>
                      NamePos(s[i].table, all) < NamePos(s[j].table, all)

\* com.whatsapp: chat_list and messages, enumerated fourth and fifth, are
\* listed first and second, before props, Notes and android_metadata in
\* their enumeration order; the query on messages raised and it is listed
C21_Witness ==
  /\ Len(analysed) = 1
  /\ AppOf(analysed[1].path) = A_whatsapp
  /\ Enumerated(1) = DB_interleaved.tables
  /\ [i \in 1..Len(analysed[1].summary) |-> analysed[1].summary[i].table]
       = <<T_chat_list, T_messages, T_props, T_Notes, T_metadata>>
  /\ analysed[1].summary[2].error


\* the place of a database in db_summaries, the order of discovery
SummaryPos(path) ==
  CHOOSE m \in 1..Len(db_summaries) : db_summaries[m].path = path

\* C22: two evidence items of equal priority and equal total_rows stand in
\* the final list in the order in which their databases were discovered,
\* which is the order of their ids.
C22_StableOrder ==
  Scored =>
    \A i, j \in 1..Len(evidence_items) :
      (/\ i < j
       /\ evidence_items[i].priority = evidence_items[j].priority
       /\ evidence_items[i].total_rows = evidence_items[j].total_rows)
        => /\ SummaryPos(evidence_items[i].db_path)
                < SummaryPos(evidence_items[j].db_path)
           /\ evidence_items[i].id < evidence_items[j].id

\* com.evernote was discovered before com.whatsapp, both of priority 1 and
\* with 3 rows: the item of com.evernote is first
C22_Witness ==
  /\ Scored
  /\ Len(evidence_items) = 2
  /\ evidence_items[1].priority = evidence_items[2].priority
  /\ evidence_items[1].total_rows = evidence_items[2].total_rows
  /\ evidence_items[1].total_rows > 0
  /\ evidence_items[1].app_name = A_evernote
  /\ evidence_items[2].app_name = A_whatsapp
  /\ db_summaries[1].path = Path(A_evernote, F_msgstore)


\* C23: two distinct candidates are never staged at the same temporary
\* path: the working copies copy_db_with_sudo made for two different source
\* paths, files of the same name in two applications included, have
\* different paths in the workspace.
C23_ExclusiveTempPath ==
  \A k, l \in 1..Len(analysed) :
    (/\ analysed[k].copied.ok
     /\ analysed[l].copied.ok
     /\ analysed[k].path # analysed[l].path)
      => analysed[k].copied.temp # analysed[l].copied.temp


\* the four table lists of an evidence item
ListsOf(item) ==
  {item.important_tables, item.other_tables, item.korean_data, item.email_data}

\* a summary that holds nothing but COPY_ERROR or DB_ERROR entries
OnlyDbSentinels(summary) ==
  /\ summary # <<>>
  /\ \A i \in 1..Len(summary) : summary[i].table \in {T_COPY_ERROR, T_DB_ERROR}

\* C24: no sentinel entry, COPY_ERROR, DB_ERROR or the entry of a table whose
\* query raised, is in important_tables, other_tables, korean_data or
\* email_data of an evidence item or counts in its total_rows, the principal
\* identity is an address of an analysed table, and a database whose result
\* holds only COPY_ERROR or DB_ERROR is not in the mapping handed to the
\* report.
C24_NoSentinelInEvidence ==
  /\ \A e \in 1..Len(evidence_items) :
       /\ \A L \in ListsOf(evidence_items[e]) :
            \A i \in 1..Len(L) :
              /\ ~L[i].error
              /\ L[i].table \notin {T_COPY_ERROR, T_DB_ERROR}
              /\ InSeq(L[i], AnalyzedTables(SummaryOf(evidence_items[e])))
       /\ evidence_items[e].total_rows
            = RowTotal(AnalyzedTables(SummaryOf(evidence_items[e])))
  /\ main_account # NoAccount => InSeq(main_account, AllAddresses(db_summaries))
  /\ \A m \in 1..Len(db_summaries) : ~OnlyDbSentinels(db_summaries[m].tables)
  /\ \A k \in 1..Len(analysed) :
       (OnlyDbSentinels(analysed[k].summary) /\ KeptCalls(analysed[k].path) = {})
         => \A m \in 1..Len(db_summaries) : db_summaries[m].path # analysed[k].path

\* the report was made from a summary that holds the entry of a table whose
\* query raised, next to analysed tables, while another database of the run
\* ended in COPY_ERROR and is not in the mapping
C24_Witness ==
  /\ ret = "True"
  /\ \E e \in 1..Len(evidence_items) :
       LET s == SummaryOf(evidence_items[e])
       IN  /\ \E i \in 1..Len(s) : s[i].error
           /\ evidence_items[e].total_rows > 0
           /\ evidence_items[e].email_data # <<>>
  /\ \E k \in 1..Len(analysed) :
       /\ analysed[k].summary = CopyErrorSummary
       /\ \A m \in 1..Len(db_summaries) : db_summaries[m].path # analysed[k].path


\* the operations of the cleanup: the unmount and the removal of the mount
\* point and of the workspace
IsCleanupOp(o) == o.by \in {"umount_img", "run_forensic_analysis"}

\* C25: once a KeyboardInterrupt was delivered to the run, no discovery,
\* copy or query operation is issued any more: every operation issued from
\* then on belongs to the cleanup.
C25_NoWorkAfterAbort ==
  [][interrupted => \A o \in ops' \ ops : IsCleanupOp(o)]_vars


\* C26: every evidence item is consistent in itself: important_tables and
\* other_tables have no table in common, every table of korean_data or
\* email_data is in important_tables, every listed table has row_count > 0,
\* total_rows is the sum of row_count over important_tables and
\* other_tables, and the ids of the items are exactly 1..n.
C26_ItemConsistent ==
  /\ \A e \in 1..Len(evidence_items) :
       LET item == evidence_items[e] IN
       /\ \A i \in 1..Len(item.important_tables) :
            ~InSeq(item.important_tables[i], item.other_tables)
       /\ \A i \in 1..Len(item.korean_data) :
            InSeq(item.korean_data[i], item.important_tables)
       /\ \A i \in 1..Len(item.email_data) :
            InSeq(item.email_data[i], item.important_tables)
       /\ \A L \in {item.important_tables, item.other_tables} :
            \A i \in 1..Len(L) : L[i].row_count > 0
       /\ item.total_rows
            = SumSeq([i \in 1..Len(item.important_tables) |->
                        item.important_tables[i].row_count])
              + SumSeq([i \in 1..Len(item.other_tables) |->
                          item.other_tables[i].row_count])
  /\ {evidence_items[e].id : e \in 1..Len(evidence_items)} = 1..Len(evidence_items)
  /\ \A e, f \in 1..Len(evidence_items) :
       evidence_items[e].id = evidence_items[f].id => e = f

\* two items that the sort exchanged, so that id 2 stands first; one of them
\* has important and other tables and an e-mail address, one has Korean text
C26_Witness ==
  /\ Len(evidence_items) = 2
  /\ evidence_items[1].id = 2
  /\ evidence_items[2].id = 1
  /\ \E e \in 1..2 :
       /\ evidence_items[e].important_tables # <<>>
       /\ evidence_items[e].other_tables # <<>>
       /\ evidence_items[e].email_data # <<>>
  /\ \E e \in 1..2 : evidence_items[e].korean_data # <<>>


\* the option sets of mount_img in the order of the claim
ClaimedMountOrder ==
  <<<<"loop", "ro", "noload">>, <<"loop", "ro">>, <<"ro", "noload">>, <<"ro">>>>

\* the option set mounts read-only
ReadOnly(options) == \E i \in 1..Len(options) : options[i] = "ro"

\* every attempt of mount_img failed
MountFailed ==
  mount_log # <<>> /\ mount_log[Len(mount_log)].result = "failed"

\* an operation of the discovery, of a copy or of a query
IsWorkOp(o) ==
  o.by \in {"find_database_files", "copy_db_with_sudo", "analyze_sqlite_db"}

ClaimedStages == <<"system_info", "prerequisites", "decryption", "forensic">>

\* run_forensic_analysis was called or one of its operations was issued
ForensicStarted ==
  \/ InSeq("forensic", stage_log)
  \/ pc # "start"
  \/ ops # {}
  \/ mount_log # <<>>
  \/ scan_call # NoScan

\* a check of main has failed
CheckFailed ==
  \/ "failed" \in {checks.prerequisites, checks.decryption, checks.decrypted_file}
  \/ checks.sudo \notin {"pending", "passwordless", "confirmed"}

\* C28: main starts its stages in the order system-info, prerequisite check,
\* decryption, forensic analysis; the forensic analysis is started only
\* after the prerequisite check passed, the decryption reported success, the
\* decrypted image file was found and sudo was confirmed usable, and when
\* one of these fails no mount or discovery operation is ever issued.
C28_StagesInOrder ==
  /\ Len(stage_log) <= Len(ClaimedStages)
  /\ \A i \in 1..Len(stage_log) : stage_log[i] = ClaimedStages[i]
  /\ ForensicStarted =>
       /\ stage_log = ClaimedStages
       /\ checks.prerequisites = "passed"
       /\ checks.decryption = "passed"
       /\ checks.decrypted_file = "passed"
       /\ checks.sudo \in {"passwordless", "confirmed"}
  /\ CheckFailed =>
       /\ ~ForensicStarted
       /\ \A o \in ops : o.by \notin {"mount_img", "find_database_files"}
       /\ main_pc = "exited"

\* the user agreed to go on and "sudo echo" worked: the image was mounted
\* and scanned and a candidate was copied and queried, after the three
\* stages before the analysis
C28_Witness ==
  /\ checks.sudo = "confirmed"
  /\ stage_log = ClaimedStages
  /\ Op("mount", "mountpoint", "mount_img") \in ops
  /\ Op("ls", "image", "find_database_files") \in ops
  /\ Op("sqlite", "workspace", "analyze_sqlite_db") \in ops

\* main has ended
MainEnded == main_pc = "exited"

\* C29: on every path by which main ends, finalize_log has been invoked
\* exactly once, and the overall_success it recorded is true only if both
\* the decryption and the forensic analysis succeeded.
C29_FinalizeExactlyOnce ==
  MainEnded =>
    /\ Len(finalize_calls) = 1
    /\ \A i \in 1..Len(finalize_calls) :
         finalize_calls[i].overall_success =>
           checks.decryption = "passed" /\ ret = "True"


\* ------------------------------------------------------------ wa.py
\* the sample size of analyze_sqlite_db of wa.py
simple_row_limit == 20

\* glob's "*" matches no name that starts with a dot
GlobStar(name) == Head(name) # "."

\* the "*.db" entries of one "databases" folder, in listing order
GlobDbs(app, files) ==
  LET hit(f) == GlobStar(f.name) /\ EndsWith(f.name, F_ext)
      hits == SelectSeq(files, hit)
  IN [i \in 1..Len(hits) |-> Path(app, hits[i].name)]

\* find_databases: every data/data/*/databases/*.db of the mounted image
find_databases(img) ==
  LET isApp(l) == l.kind = "d" /\ GlobStar(l.name)
      apps == SelectSeq(img.lines, isApp)
  IN Flatten([a \in 1..Len(apps) |-> GlobDbs(apps[a].name, apps[a].files)])

\* whether analyze_sqlite_db raises: the table list cannot be read, or the
\* query on one of the tables fails
SimpleRaises(db) ==
  db.corrupt \/ \E t \in 1..Len(db.tables) : db.tables[t].bad

\* the value of one key of a result dict: a dict of columns and rows
TableContent(t) ==
  [kind |-> "dict", columns |-> t.columns,
   rows |-> Min(t.nrows, simple_row_limit)]

\* the value of the key 'error': the text of the exception, a str
ErrorContent == [kind |-> "str", columns |-> <<>>, rows |-> 0]

\* the dict main stores for one database: analyze_sqlite_db's result with
\* one key per table, or {'error': str(e)} when it raised
SimpleResult(db) ==
  IF SimpleRaises(db)
  THEN <<[key |-> <<"error">>, content |-> ErrorContent]>>
  ELSE [t \in 1..Len(db.tables) |->
          [key |-> db.tables[t].name, content |-> TableContent(db.tables[t])]]

ReportLine(line, of) == [line |-> line, of |-> of]

\* the inner loop of generate_report over the keys of one dict: the lines
\* written and whether content['columns'] raised, as it does on a str
RECURSIVE WriteTables(_)
WriteTables(entries) ==
  IF entries = <<>> THEN [lines |-> <<>>, raised |-> FALSE]
  ELSE LET e == Head(entries)
           title == <<ReportLine("Table", e.key)>>
       IN IF e.content.kind # "dict"
          THEN [lines |-> title, raised |-> TRUE]
          ELSE LET rest == WriteTables(Tail(entries))
               IN [lines |-> title
                               \o <<ReportLine("Columns", e.key),
                                    ReportLine("Sample Rows", e.key)>>
                               \o rest.lines,
                   raised |-> rest.raised]

\* generate_report: the lines written to the report file, which the with
\* block closes on every path, and whether the call raised
RECURSIVE generate_report(_)
generate_report(results) ==
  IF results = <<>> THEN [lines |-> <<>>, raised |-> FALSE]
  ELSE LET r == Head(results)
           title == <<ReportLine("Database", r.path)>>
           tabs == WriteTables(r.result)
       IN IF tabs.raised
          THEN [lines |-> title \o tabs.lines, raised |-> TRUE]
          ELSE LET rest == generate_report(Tail(results))
               IN [lines |-> title \o tabs.lines \o rest.lines,
                   raised |-> rest.raised]

\* what main of wa.py leaves alone
simpleFixed == <<image, temp_dir, tmpFiles, mounted, mount_point, mount_log,
                 db_info_list, db_files, db_summaries, successful_analyses,
                 failed_analyses, analysed, last_call, scan_call, interrupted,
                 ops, evidence_items, main_account, mainVars>>

\* one pass of the loop of main: analyze_sqlite_db or the except clause
SimpleAnalyzeNext ==
  /\ pc = "wa_loop"
  /\ idx <= Len(db_files)
  /\ db_analysis_results' =
       Append(db_analysis_results,
              [path |-> db_files[idx],
               result |-> SimpleResult(DbAt(image, db_files[idx]))])
  /\ idx' = idx + 1
  /\ UNCHANGED <<pc, ret, report, simpleFixed>>

\* the end of main: generate_report, then the closing message, unless
\* generate_report raised
SimpleGenerateReport ==
  /\ pc = "wa_loop"
  /\ idx > Len(db_files)
  /\ \E g \in {generate_report(db_analysis_results)} :
       /\ report' = g.lines
       /\ ret' = IF g.raised THEN "TypeError" ELSE "returned"
  /\ pc' = "wa_done"
  /\ UNCHANGED <<idx, db_analysis_results, simpleFixed>>

SimpleImages ==
  Images \cup {OneDbImage(a, d) : a \in AnalyzerApps, d \in AnalyzerDbs}

\* main of wa.py after the image was decrypted, mounted and searched
InitSimple ==
  /\ pc = "wa_loop"
  /\ image \in SimpleImages
  /\ temp_dir = FALSE
  /\ tmpFiles = {}
  /\ mounted = TRUE
  /\ mount_point = TRUE
  /\ mount_log = <<>>
  /\ db_info_list = <<>>
  /\ db_files = find_databases(image)
  /\ idx = 1
  /\ db_summaries = <<>>
  /\ successful_analyses = 0
  /\ failed_analyses = 0
  /\ analysed = <<>>
  /\ last_call = NoCall
  /\ scan_call = NoScan
  /\ interrupted = FALSE
  /\ ops = {}
  /\ evidence_items = <<>>
  /\ main_account = NoAccount
  /\ ret = "none"
  /\ MainAtForensic
  /\ SimpleIdle

NextSimple == SimpleAnalyzeNext \/ SimpleGenerateReport

SpecSimple == InitSimple /\ [][NextSimple]_vars

\* the databases whose analysis returned a result
SimpleAnalyzed ==
  {db_files[i] : i \in {i \in 1..Len(db_files) :
                          ~SimpleRaises(DbAt(image, db_files[i]))}}

\* the databases whose section is in the report with every table of it
SimpleReported ==
  {p \in SimpleAnalyzed :
     /\ ReportLine("Database", p) \in {report[i] : i \in 1..Len(report)}
     /\ \A k \in 1..Len(db_analysis_results) :
          db_analysis_results[k].path = p =>
            \A t \in 1..Len(db_analysis_results[k].result) :
              \E i \in 1..Len(report) :
                report[i] = ReportLine("Table", db_analysis_results[k].result[t].key)}

\* C30: when main of wa.py has ended, every database found has an entry,
\* the entry of a database whose analysis raised is the error record, and
\* generate_report completed and wrote the section of every database that
\* was analysed successfully.
C30_ErrorsDoNotStopReport ==
  pc = "wa_done" =>
    /\ Len(db_analysis_results) = Len(db_files)
    /\ \A k \in 1..Len(db_analysis_results) :
         /\ db_analysis_results[k].path = db_files[k]
         /\ SimpleRaises(DbAt(image, db_files[k])) =>
              db_analysis_results[k].result[1].key = <<"error">>
    /\ ret = "returned"
    /\ SimpleReported = SimpleAnalyzed
====
